---------------------------- MODULE Spec2Model ----------------------------
(***************************************************************************)
(* Document splitter of the trade-finance discrepancy finder               *)
(* (server/services/documentSplitter.js, kept here as src/unnamed/part_002)*)
(*                                                                         *)
(* splitDocumentByFormType normalizes the OCR text, scans its lines for    *)
(* the start and end patterns of DOCUMENT_SIGNATURES, re-scores the        *)
(* detected sections, falls back to a single whole-text section when none  *)
(* is left, and wraps the sections as split documents.                     *)
(*                                                                         *)
(* Representation.                                                         *)
(*  - A string is a sequence of tokens.  A token is a word (a run of       *)
(*    non-blank characters) or NL, the line feed.  Two adjacent words are  *)
(*    separated by exactly one blank; NL has no blank around it.           *)
(*  - A regular expression  /W1\s+W2\s+...\s+Wn/i  is the sequence of its  *)
(*    words in lower case; a keyword 'w1 w2' likewise.  The words of the   *)
(*    inputs are chosen so that a pattern word occurs in a token only as   *)
(*    the whole token.                                                     *)
(*  - A JavaScript number (IEEE-754 double) d that is close to a multiple  *)
(*    of 0.005 is the record [q |-> n, e |-> k] with                       *)
(*    d = fl(n / 200) + k ulp, fl the rounding to the nearest double.      *)
(*    Multiplying by 0.5 is exact in binary and keeps e.                   *)
(*  - Indices (startIndex, endIndex, i) are 0-based as in the source;      *)
(*    the sequences of the model are 1-based.                              *)
(***************************************************************************)
EXTENDS Integers, Sequences, FiniteSets, TLC

(***************************************************************************)
(* Bounds of the model                                                     *)
(***************************************************************************)
\* most raw lines in the text handed to splitDocumentByFormType
MaxRawLines == 2
\* most lines handed to findDocumentSections when it is checked on its own
MaxLines == 3
\* most raw lines in the text of each of two overlapping invocations
MaxConcLines == 1
\* latest reading of the wall clock
MaxClock == 1
\* most lines of the section handed to extractFieldsFromSection on its own
MaxFieldLines == 2
\* most lines handed to extractGenericFields on its own
MaxGenericLines == 11
\* most of these lines that are not the plain pair  name: bob
MaxOddLines == 1
\* most raw segments handed to refineSections when it is checked on its own
MaxRefined == 2
\* most messages the logger of one pass of Tesseract is given
MaxReports == 1

(***************************************************************************)
(* Tokens and strings                                                      *)
(***************************************************************************)
NL == "\n"

\* String.prototype.toLowerCase on the words of the inputs
Lower(t) ==
  CASE t = "LETTER" -> "letter"
    [] t = "OF" -> "of"
    [] t = "CREDIT" -> "credit"
    [] t = "LC" -> "lc"
    [] t = "NUMBER" -> "number"
    [] t = "BENEFICIARY" -> "beneficiary"
    [] t = "APPLICANT" -> "applicant"
    [] t = "AMOUNT" -> "amount"
    [] t = "EXPIRY" -> "expiry"
    [] t = "BILL" -> "bill"
    [] t = "LADING" -> "lading"
    [] t = "VESSEL" -> "vessel"
    [] t = "PORT" -> "port"
    [] t = "CONSIGNEE" -> "consignee"
    [] t = "SHIPPER" -> "shipper"
    [] t = "CARGO" -> "cargo"
    [] t = "SHIPPED" -> "shipped"
    [] t = "ON" -> "on"
    [] t = "BOARD" -> "board"
    [] t = "UCP" -> "ucp"
    [] t = "PACKAGES" -> "packages"
    [] t = "COMMERCIAL" -> "commercial"
    [] t = "INVOICE" -> "invoice"
    [] t = "TOTAL" -> "total"
    [] t = "COUNTRY" -> "country"
    [] t = "ORIGIN" -> "origin"
    [] t = "POLICY" -> "policy"
    [] t = "DOCUMENTS" -> "documents"
    [] t = "REQUIRED" -> "required"
    [] OTHER -> t

\* number of characters of a token
TokLen(t) == IF t = NL THEN 1 ELSE Len(t)

\* the colon is written right after the word before it
Glued(t) == t = ":"

\* a blank stands between the adjacent tokens a and b
BlankBetween(a, b) == a # NL /\ b # NL /\ ~Glued(b)

\* String.prototype.length: the characters of the tokens plus one blank
\* between two adjacent words
RECURSIVE StrLen(_)
StrLen(s) ==
  IF s = <<>> THEN 0
  ELSE IF Len(s) = 1 THEN TokLen(s[1])
  ELSE TokLen(s[1])
       + (IF BlankBetween(s[1], s[2]) THEN 1 ELSE 0)
       + StrLen(Tail(s))

\* the words of a string, white space dropped
Words(s) == SelectSeq(s, LAMBDA t : t # NL)

\* the words of phrase occur in toks one after the other, case folded
ContainsPhrase(toks, phrase) ==
  \E j \in 1..(Len(toks) - Len(phrase) + 1) :
    \A k \in 1..Len(phrase) : Lower(toks[j + k - 1]) = phrase[k]

\* RegExp.prototype.test for /W1\s+W2.../i : \s+ matches blanks and line feeds
RegexTest(pattern, s) == ContainsPhrase(Words(s), pattern)

\* String.prototype.includes on the lower-cased text: the blank of a keyword
\* matches a blank only, never a line feed
Includes(s, keyword) == ContainsPhrase(s, keyword)

\* Array.prototype.join('\n') of an array of lines
RECURSIVE JoinLines(_)
JoinLines(ls) ==
  IF ls = <<>> THEN <<>>
  ELSE IF Len(ls) = 1 THEN ls[1]
  ELSE ls[1] \o <<NL>> \o JoinLines(Tail(ls))

\* String.prototype.split('\n')
RECURSIVE SplitLines(_)
SplitLines(s) ==
  IF \A k \in 1..Len(s) : s[k] # NL THEN <<s>>
  ELSE LET k == CHOOSE k \in 1..Len(s) :
                  s[k] = NL /\ \A j \in 1..(k - 1) : s[j] # NL
       IN  <<SubSeq(s, 1, k - 1)>> \o SplitLines(SubSeq(s, k + 1, Len(s)))

\* Array.prototype.slice(from, to) with 0-based from (inclusive), to (exclusive)
Slice(a, from, to) == SubSeq(a, from + 1, to)


(***************************************************************************)
(* Characters                                                              *)
(***************************************************************************)
\* a word of 100 characters
LongWord ==
  "1234567890123456789012345678901234567890123456789012345678901234567890123456789012345678901234567890"

\* a word of 50 characters
LongLabel == "abcdefghijabcdefghijabcdefghijabcdefghijabcdefghij"

Digits == {"0", "1", "2", "3", "4", "5", "6", "7", "8", "9"}

Letters ==
  {"a", "b", "c", "d", "e", "f", "g", "h", "i", "j", "k", "l", "m",
   "n", "o", "p", "q", "r", "s", "t", "u", "v", "w", "x", "y", "z"}

\* the characters of the tokens of the inputs
Chars(t) ==
  CASE t = "hello" -> << "h", "e", "l", "l", "o" >>
    [] t = "world" -> << "w", "o", "r", "l", "d" >>
    [] t = "LETTER" -> << "L", "E", "T", "T", "E", "R" >>
    [] t = "OF" -> << "O", "F" >>
    [] t = "CREDIT" -> << "C", "R", "E", "D", "I", "T" >>
    [] t = "LC" -> << "L", "C" >>
    [] t = "NUMBER" -> << "N", "U", "M", "B", "E", "R" >>
    [] t = "BENEFICIARY" -> << "B", "E", "N", "E", "F", "I", "C", "I", "A", "R", "Y" >>
    [] t = "APPLICANT" -> << "A", "P", "P", "L", "I", "C", "A", "N", "T" >>
    [] t = "AMOUNT" -> << "A", "M", "O", "U", "N", "T" >>
    [] t = "EXPIRY" -> << "E", "X", "P", "I", "R", "Y" >>
    [] t = "UCP" -> << "U", "C", "P" >>
    [] t = "600" -> << "6", "0", "0" >>
    [] t = "BILL" -> << "B", "I", "L", "L" >>
    [] t = "LADING" -> << "L", "A", "D", "I", "N", "G" >>
    [] t = "VESSEL" -> << "V", "E", "S", "S", "E", "L" >>
    [] t = "PORT" -> << "P", "O", "R", "T" >>
    [] t = "CONSIGNEE" -> << "C", "O", "N", "S", "I", "G", "N", "E", "E" >>
    [] t = "SHIPPER" -> << "S", "H", "I", "P", "P", "E", "R" >>
    [] t = "SHIPPED" -> << "S", "H", "I", "P", "P", "E", "D" >>
    [] t = "ON" -> << "O", "N" >>
    [] t = "BOARD" -> << "B", "O", "A", "R", "D" >>
    [] t = "CARGO" -> << "C", "A", "R", "G", "O" >>
    [] t = "PACKAGES" -> << "P", "A", "C", "K", "A", "G", "E", "S" >>
    [] t = ":" -> << ":" >>
    [] t = "COMMERCIAL" -> << "C", "O", "M", "M", "E", "R", "C", "I", "A", "L" >>
    [] t = "INVOICE" -> << "I", "N", "V", "O", "I", "C", "E" >>
    [] t = "INV-123" -> << "I", "N", "V", "-", "1", "2", "3" >>
    [] t = "TOTAL" -> << "T", "O", "T", "A", "L" >>
    [] t = "USD" -> << "U", "S", "D" >>
    [] t = "500.00" -> << "5", "0", "0", ".", "0", "0" >>
    [] t = "ABC" -> << "A", "B", "C" >>
    [] t = "Trading" -> << "T", "r", "a", "d", "i", "n", "g" >>
    [] t = "Company" -> << "C", "o", "m", "p", "a", "n", "y" >>
    [] t = "Limited" -> << "L", "i", "m", "i", "t", "e", "d" >>
    [] t = "XYZ" -> << "X", "Y", "Z" >>
    [] t = "Corp" -> << "C", "o", "r", "p" >>
    [] t = "name" -> << "n", "a", "m", "e" >>
    [] t = "bob" -> << "b", "o", "b" >>
    [] t = "A-001" -> << "A", "-", "0", "0", "1" >>
    [] t = "12" -> << "1", "2" >>
    [] t = "Ever" -> << "E", "v", "e", "r" >>
    [] t = "Given" -> << "G", "i", "v", "e", "n" >>
    [] t = "COUNTRY" -> << "C", "O", "U", "N", "T", "R", "Y" >>
    [] t = "ORIGIN" -> << "O", "R", "I", "G", "I", "N" >>
    [] t = "India" -> << "I", "n", "d", "i", "a" >>
    [] t = "POLICY" -> << "P", "O", "L", "I", "C", "Y" >>
    [] t = "P-9" -> << "P", "-", "9" >>
    [] t = "DOCUMENTS" -> << "D", "O", "C", "U", "M", "E", "N", "T", "S" >>
    [] t = "REQUIRED" -> << "R", "E", "Q", "U", "I", "R", "E", "D" >>
    [] t = LongWord ->
         [k \in 1..100 |->
            <<"1", "2", "3", "4", "5", "6", "7", "8", "9", "0">>[((k - 1) % 10) + 1]]
    [] t = LongLabel ->
         [k \in 1..50 |->
            <<"a", "b", "c", "d", "e", "f", "g", "h", "i", "j">>[((k - 1) % 10) + 1]]
    [] t = NL -> << NL >>

\* String.prototype.toLowerCase on one character; the i flag of a RegExp
LowerChar(c) ==
  CASE c = "A" -> "a" [] c = "B" -> "b" [] c = "C" -> "c" [] c = "D" -> "d"
    [] c = "E" -> "e" [] c = "F" -> "f" [] c = "G" -> "g" [] c = "H" -> "h"
    [] c = "I" -> "i" [] c = "J" -> "j" [] c = "K" -> "k" [] c = "L" -> "l"
    [] c = "M" -> "m" [] c = "N" -> "n" [] c = "O" -> "o" [] c = "P" -> "p"
    [] c = "Q" -> "q" [] c = "R" -> "r" [] c = "S" -> "s" [] c = "T" -> "t"
    [] c = "U" -> "u" [] c = "V" -> "v" [] c = "W" -> "w" [] c = "X" -> "x"
    [] c = "Y" -> "y" [] c = "Z" -> "z" [] OTHER -> c

\* the characters of a string: those of its tokens, with the blanks
RECURSIVE CharsOf(_)
CharsOf(s) ==
  IF s = <<>> THEN <<>>
  ELSE IF Len(s) = 1 THEN Chars(s[1])
  ELSE Chars(s[1])
       \o (IF BlankBetween(s[1], s[2]) THEN <<" ">> ELSE <<>>)
       \o CharsOf(Tail(s))

(***************************************************************************)
(* Numbers                                                                 *)
(***************************************************************************)
D(n, k) == [q |-> n, e |-> k]

Gt(a, b) == a.q > b.q \/ (a.q = b.q /\ a.e > b.e)

Le(a, b) == ~Gt(a, b)

\* Math.min
MathMin(a, b) == IF Gt(a, b) THEN b ELSE a

\* x / 0.5, the penalty of line 248 inverted
Twice(x) == [q |-> 2 * x.q, e |-> x.e]

\* x * 0.5
Half(x) == [q |-> x.q \div 2, e |-> x.e]

(***************************************************************************)
(* DOCUMENT_SIGNATURES                                                     *)
(***************************************************************************)
\* Object.keys(DOCUMENT_SIGNATURES), in insertion order
DocTypes ==
  << "Letter of Credit", "Commercial Invoice", "Bill of Lading",
     "Packing List", "Certificate of Origin", "Insurance Certificate" >>

UnknownDocument == "Unknown Document"

DOCUMENT_SIGNATURES ==
  [t \in {DocTypes[k] : k \in 1..Len(DocTypes)} |->
    CASE t = "Letter of Credit" ->
           [startPatterns |-> << <<"irrevocable", "documentary", "credit">>,
                                 <<"letter", "of", "credit">>,
                                 <<"documentary", "credit">>,
                                 <<"lc", "number">>,
                                 <<"credit", "number">> >>,
            endPatterns   |-> << <<"end", "of", "credit">>,
                                 <<"credit", "expires">>,
                                 <<"ucp", "600">>,
                                 <<"authorized", "signature">> >>,
            keywords      |-> << <<"beneficiary">>, <<"applicant">>,
                                 <<"expiry">>, <<"amount">>,
                                 <<"documents", "required">> >>]
      [] t = "Commercial Invoice" ->
           [startPatterns |-> << <<"commercial", "invoice">>,
                                 <<"invoice", "number">>,
                                 <<"invoice", "date">>,
                                 <<"sold", "to">>,
                                 <<"bill", "to">> >>,
            endPatterns   |-> << <<"total", "amount">>,
                                 <<"grand", "total">>,
                                 <<"payment", "terms">>,
                                 <<"thank", "you">> >>,
            keywords      |-> << <<"invoice">>, <<"quantity">>,
                                 <<"unit", "price">>, <<"total">>,
                                 <<"description">> >>]
      [] t = "Bill of Lading" ->
           [startPatterns |-> << <<"bill", "of", "lading">>,
                                 <<"b/l", "number">>,
                                 <<"shipped", "on", "board">>,
                                 <<"vessel">>,
                                 <<"port", "of", "loading">> >>,
            endPatterns   |-> << <<"freight", "prepaid">>,
                                 <<"freight", "collect">>,
                                 <<"shipped", "on", "board">>,
                                 <<"master's", "signature">> >>,
            keywords      |-> << <<"consignee">>, <<"shipper">>,
                                 <<"vessel">>, <<"port">>, <<"cargo">> >>]
      [] t = "Packing List" ->
           [startPatterns |-> << <<"packing", "list">>,
                                 <<"package", "list">>,
                                 <<"gross", "weight">>,
                                 <<"net", "weight">>,
                                 <<"packages">> >>,
            endPatterns   |-> << <<"total", "packages">>,
                                 <<"total", "weight">>,
                                 <<"measurement">>,
                                 <<"dimensions">> >>,
            keywords      |-> << <<"packages">>, <<"weight">>,
                                 <<"dimensions">>, <<"cartons">>,
                                 <<"pieces">> >>]
      [] t = "Certificate of Origin" ->
           [startPatterns |-> << <<"certificate", "of", "origin">>,
                                 <<"country", "of", "origin">>,
                                 <<"chamber", "of", "commerce">>,
                                 <<"origin", "certificate">> >>,
            endPatterns   |-> << <<"chamber", "seal">>,
                                 <<"authorized", "signature">>,
                                 <<"certificate", "number">>,
                                 <<"date", "of", "issue">> >>,
            keywords      |-> << <<"origin">>, <<"country">>, <<"goods">>,
                                 <<"certificate">>, <<"chamber">> >>]
      [] t = "Insurance Certificate" ->
           [startPatterns |-> << <<"insurance", "certificate">>,
                                 <<"policy", "number">>,
                                 <<"insured", "amount">>,
                                 <<"coverage">>,
                                 <<"marine", "insurance">> >>,
            endPatterns   |-> << <<"policy", "expires">>,
                                 <<"insurer's", "signature">>,
                                 <<"claims", "payable">>,
                                 <<"coverage", "ends">> >>,
            keywords      |-> << <<"insurance">>, <<"policy">>,
                                 <<"coverage">>, <<"premium">>,
                                 <<"claims">> >>] ]

(***************************************************************************)
(* State                                                                   *)
(***************************************************************************)
\* the invocations of splitDocumentByFormType
Procs == {1, 2}

VARIABLES
  registry,          \* the module-level object DOCUMENT_SIGNATURES
  now,               \* the wall clock read by new Date()
  pc,                \* where each invocation stands
  documentId,        \* argument documentId
  extractedText,     \* argument extractedText
  normalizedText,    \* const normalizedText
  lines,             \* const lines
  i,                 \* loop variable of findDocumentSections
  sections,          \* const sections of findDocumentSections
  currentSection,    \* let currentSection: <<>> is null, <<s>> the object s
  documentSections,  \* const documentSections
  usedFallback,      \* whether the branch of lines 120-129 was taken
  splitDocuments,    \* const splitDocuments
  result,            \* the value the invocation resolves to: <<>> until then
  xpc,               \* where a call of an extractor on its own stands
  sectionContent,    \* section.content, handed to extractFieldsFromSection
  sectionType,       \* section.type, handed to extractFieldsFromSection
  fieldLines,        \* argument lines of extractGenericFields
  fields,            \* const fields of the extractor, then what it returns
  service,           \* the module processDocument is imported from
  fileType,          \* document.fileType
  processingProgress, \* the Map of documents.js: <<>> no entry, <<e>> entry e
  rpc,               \* where each processing run of the document stands
  kind,              \* the route that started each run
  recorded,          \* what each run has handed to updateProgress so far
  reports,           \* the percentages the logger got in the current pass
  timers             \* the runs whose cleanup timer is pending

\* the variables of the extractors called on their own
extractVars == << xpc, sectionContent, sectionType, fieldLines, fields >>

\* the variables of the pipeline
splitVars ==
  << registry, now, pc, documentId, extractedText, normalizedText, lines, i, sections,
     currentSection, documentSections, usedFallback, splitDocuments, result >>

\* the variables of the processing runs
progressVars ==
  << service, fileType, processingProgress, rpc, kind, recorded, reports, timers >>

vars ==
  << registry, now, pc, documentId, extractedText, normalizedText, lines, i, sections,
     currentSection, documentSections, usedFallback, splitDocuments, result,
     extractVars, progressVars >>


(***************************************************************************)
(* Scoring (lines 255-349)                                                 *)
(***************************************************************************)
\* how many elements of the array seq satisfy Test
CountOf(seq, Test(_)) == Cardinality({k \in 1..Len(seq) : Test(seq[k])})

\* matches / signature.keywords.length, 0 for a type without signature
countKeywordMatches(text, documentType) ==
  IF documentType \notin DOMAIN registry THEN D(0, 0)
  ELSE LET keywords == registry[documentType].keywords
           matches  == CountOf(keywords, LAMBDA keyword : Includes(text, keyword))
       IN  D((200 * matches) \div Len(keywords), 0)

\* how many of requiredSections occur in some line
FoundSections(ls, requiredSections) ==
  CountOf(requiredSections,
          LAMBDA section : \E k \in 1..Len(ls) : Includes(ls[k], section))

\* score += 0.2 for each of the five: 0.2 + 0.2 + 0.2 is 0.6000000000000001
analyzeLCStructure(ls) ==
  LET found == FoundSections(ls, << <<"lc", "number">>, <<"beneficiary">>,
                                    <<"applicant">>, <<"amount">>, <<"expiry">> >>)
  IN  D(40 * found, IF found = 3 THEN 1 ELSE 0)

\* score += 0.25 for each of the four (exact in binary)
analyzeInvoiceStructure(ls) ==
  D(50 * FoundSections(ls, << <<"invoice", "number">>, <<"date">>,
                              <<"total">>, <<"description">> >>), 0)

analyzeBLStructure(ls) ==
  D(50 * FoundSections(ls, << <<"vessel">>, <<"port">>,
                              <<"consignee">>, <<"shipper">> >>), 0)

\* text.split('\n').filter(line => line.trim().length > 0)
NonEmptyLines(text) == SelectSeq(SplitLines(text), LAMBDA l : l # <<>>)

analyzeDocumentStructure(text, documentType) ==
  LET ls == NonEmptyLines(text)
  IN  CASE documentType = "Letter of Credit"   -> analyzeLCStructure(ls)
        [] documentType = "Commercial Invoice" -> analyzeInvoiceStructure(ls)
        [] documentType = "Bill of Lading"     -> analyzeBLStructure(ls)
        [] OTHER                               -> D(100, 0)

\* rounding error, in ulp, of keywordMatches * 0.4 + structureScore * 0.6
\* for keywordMatches = m / 5 and the structure score of quantum sq
RefineRoundoff(m, sq) ==
  CASE <<m, sq>> \in { <<0, 120>>, <<1, 0>>, <<1, 120>>, <<2, 0>>, <<2, 50>>,
                       <<3, 120>>, <<4, 0>>, <<4, 40>>, <<4, 100>>,
                       <<4, 120>> }                  -> 1
    [] <<m, sq>> = <<4, 50>>                         -> 2
    [] <<m, sq>> \in { <<0, 150>>, <<1, 200>> }      -> 0 - 1
    [] OTHER                                         -> 0

\* the blend with the two weights exchanged:
\* keywordMatches * 0.6 + structureScore * 0.4
BlendRefineSwapped(keywordMatches, structureScore) ==
  D((6 * keywordMatches.q + 4 * structureScore.q) \div 10, 0)

\* keywordMatches * 0.4 + structureScore * 0.6
BlendRefine(keywordMatches, structureScore) ==
  D((4 * keywordMatches.q + 6 * structureScore.q) \div 10,
    RefineRoundoff(keywordMatches.q \div 40, structureScore.q))

\* RefinedConfidence with the penalty of line 248 applied before the cap of
\* line 244
RefinedConfidenceHalvedFirst(section) ==
  LET keywordMatches == countKeywordMatches(section.content, section.type)
      structureScore == analyzeDocumentStructure(section.content, section.type)
      blend == BlendRefine(keywordMatches, structureScore)
  IN  MathMin(D(190, 0),
              IF StrLen(section.content) < 100 THEN Half(blend) ELSE blend)

\* lines 241-249: the confidence refineSections assigns to a section
RefinedConfidence(section) ==
  LET keywordMatches == countKeywordMatches(section.content, section.type)
      structureScore == analyzeDocumentStructure(section.content, section.type)
      capped == MathMin(D(190, 0), BlendRefine(keywordMatches, structureScore))
  IN  IF StrLen(section.content) < 100 THEN Half(capped) ELSE capped

\* lines 239-251: the map of refineSections; it assigns to the confidence
\* of the section objects themselves
Rescored(secs) ==
  [k \in 1..Len(secs) |->
     [secs[k] EXCEPT !.confidence = RefinedConfidence(secs[k])]]

\* refineSections without the filter of line 252
refineSectionsUnfiltered(secs) == Rescored(secs)

\* refineSections returning the sections it keeps newest first
refineSectionsNewestFirst(secs) ==
  LET kept == SelectSeq(Rescored(secs),
                        LAMBDA section : Gt(section.confidence, D(60, 0)))
  IN  [k \in 1..Len(kept) |-> kept[Len(kept) + 1 - k]]

\* lines 238-253
refineSections(secs) ==
  SelectSeq(Rescored(secs), LAMBDA section : Gt(section.confidence, D(60, 0)))

\* rounding error, in ulp, of keywordScore * 0.6 + patternScore * 0.4
\* for keywordScore = m / 5 and the pattern score of quantum pq
IdentifyRoundoff(m, pq) ==
  CASE <<m, pq>> \in { <<0, 40>>, <<0, 80>>, <<0, 150>>, <<0, 160>>,
                       <<1, 150>>, <<1, 160>> }      -> 1
    [] <<m, pq>> \in { <<2, 50>>, <<3, 50>>, <<4, 100>>, <<5, 40>> } -> 0 - 1
    [] OTHER                                         -> 0

\* lines 260-265: totalScore of one signature
TotalScore(text, docType) ==
  LET keywordScore == countKeywordMatches(text, docType)
      patterns     == registry[docType].startPatterns
      patternScore ==
        D((200 * CountOf(patterns, LAMBDA pattern : RegexTest(pattern, text)))
            \div Len(patterns), 0)
  IN  D((6 * keywordScore.q + 4 * patternScore.q) \div 10,
        IdentifyRoundoff(keywordScore.q \div 40, patternScore.q))

\* the loop of lines 259-271 with >= in the place of > at line 267: of the
\* signatures with the highest score the last one is kept
RECURSIVE BestMatchFromLastWins(_, _, _)
BestMatchFromLastWins(text, k, best) ==
  IF k > Len(DocTypes) THEN best
  ELSE LET totalScore == TotalScore(text, DocTypes[k])
       IN  BestMatchFromLastWins(text, k + 1,
             IF ~Gt(best.highestScore, totalScore)
             THEN [bestMatch |-> DocTypes[k], highestScore |-> totalScore]
             ELSE best)

\* the loop of lines 259-271 from signature k on; best is
\* [bestMatch, highestScore]
RECURSIVE BestMatchFrom(_, _, _)
BestMatchFrom(text, k, best) ==
  IF k > Len(DocTypes) THEN best
  ELSE LET totalScore == TotalScore(text, DocTypes[k])
       IN  BestMatchFrom(text, k + 1,
             IF Gt(totalScore, best.highestScore)
             THEN [bestMatch |-> DocTypes[k], highestScore |-> totalScore]
             ELSE best)

\* identifyDocumentType returning another name than the one it starts from
identifyDocumentTypeRenamed(text) ==
  LET best == BestMatchFrom(text, 1,
                [bestMatch |-> UnknownDocument, highestScore |-> D(0, 0)])
  IN  IF Gt(best.highestScore, D(60, 0)) THEN best.bestMatch
      ELSE "Unknown"

\* lines 255-274
identifyDocumentType(text) ==
  LET best == BestMatchFrom(text, 1,
                [bestMatch |-> UnknownDocument, highestScore |-> D(0, 0)])
  IN  IF Gt(best.highestScore, D(60, 0)) THEN best.bestMatch
      ELSE UnknownDocument

\* lines 343-349: Math.min(0.9, 0.5 + matchingPatterns * 0.2)
calculateDocumentConfidence(line, documentType) ==
  IF documentType \notin DOMAIN registry THEN D(100, 0)
  ELSE LET matchingPatterns ==
             CountOf(registry[documentType].startPatterns,
                     LAMBDA pattern : RegexTest(pattern, line))
       IN  MathMin(D(180, 0), D(100 + 40 * matchingPatterns, 0))


(***************************************************************************)
(* findDocumentSections (lines 178-236)                                    *)
(***************************************************************************)
\* line 188
isStartPattern(docType, line) ==
  \E k \in 1..Len(registry[docType].startPatterns) :
    RegexTest(registry[docType].startPatterns[k], line)

\* line 215
isEndPattern(docType, line) ==
  \E k \in 1..Len(registry[docType].endPatterns) :
    RegexTest(registry[docType].endPatterns[k], line)

\* the loop of line 187 without the break of line 208: the last signature
\* with a start pattern matching line decides
LastStartType(line) ==
  LET matching == {k \in 1..Len(DocTypes) : isStartPattern(DocTypes[k], line)}
  IN  IF matching = {} THEN 0
      ELSE CHOOSE k \in matching : \A j \in matching : k >= j

\* the signature at which the loop of line 187 breaks: the position in
\* DocTypes of the first one with a start pattern matching line, 0 if none
FirstStartType(line) ==
  LET matching == {k \in 1..Len(DocTypes) : isStartPattern(DocTypes[k], line)}
  IN  IF matching = {} THEN 0
      ELSE CHOOSE k \in matching : \A j \in matching : k <= j

\* CheckStartPatterns closing the open section at idx instead of idx - 1
CheckStartPatternsCloseAtLine(ls, idx, st) ==
  LET k == FirstStartType(ls[idx + 1])
  IN  IF k = 0 THEN st
      ELSE [sections |->
              IF st.currentSection # <<>>
              THEN Append(st.sections,
                     [st.currentSection[1] EXCEPT
                        !.endIndex = idx,
                        !.content = JoinLines(
                           Slice(ls, st.currentSection[1].startIndex, idx + 1))])
              ELSE st.sections,
            currentSection |->
              << [type       |-> DocTypes[k],
                  startIndex |-> idx,
                  endIndex   |-> Len(ls) - 1,
                  content    |-> <<>>,
                  confidence |->
                    calculateDocumentConfidence(ls[idx + 1], DocTypes[k])] >>]

\* CheckStartPatterns pushing the open section without the content of
\* line 194
CheckStartPatternsNoContent(ls, idx, st) ==
  LET k == FirstStartType(ls[idx + 1])
  IN  IF k = 0 THEN st
      ELSE [sections |->
              IF st.currentSection # <<>>
              THEN Append(st.sections,
                     [st.currentSection[1] EXCEPT !.endIndex = idx - 1])
              ELSE st.sections,
            currentSection |->
              << [type       |-> DocTypes[k],
                  startIndex |-> idx,
                  endIndex   |-> Len(ls) - 1,
                  content    |-> <<>>,
                  confidence |->
                    calculateDocumentConfidence(ls[idx + 1], DocTypes[k])] >>]

\* lines 186-210 for line idx; st is [sections, currentSection]
CheckStartPatterns(ls, idx, st) ==
  LET k == FirstStartType(ls[idx + 1])
  IN  IF k = 0 THEN st
      ELSE [sections |->
              IF st.currentSection # <<>>
              THEN Append(st.sections,
                     [st.currentSection[1] EXCEPT
                        !.endIndex = idx - 1,
                        !.content = JoinLines(
                           Slice(ls, st.currentSection[1].startIndex, idx))])
              ELSE st.sections,
            currentSection |->
              << [type       |-> DocTypes[k],
                  startIndex |-> idx,
                  endIndex   |-> Len(ls) - 1,
                  content    |-> <<>>,
                  confidence |->
                    calculateDocumentConfidence(ls[idx + 1], DocTypes[k])] >>]

\* CheckEndPatterns closing the open section at every line after the one
\* that opened it
CheckEndPatternsAnyLine(ls, idx, st) ==
  IF st.currentSection # <<>>
     /\ (\/ isEndPattern(st.currentSection[1].type, ls[idx + 1])
         \/ st.currentSection[1].startIndex < idx)
  THEN [sections |->
          Append(st.sections,
            [st.currentSection[1] EXCEPT
               !.endIndex = idx,
               !.content = JoinLines(
                  Slice(ls, st.currentSection[1].startIndex, idx + 1))]),
        currentSection |-> <<>>]
  ELSE st

\* the end patterns of every signature tested, instead of those of the
\* type of the open section
CheckEndPatternsAnyType(ls, idx, st) ==
  IF st.currentSection # <<>>
     /\ \E k \in 1..Len(DocTypes) : isEndPattern(DocTypes[k], ls[idx + 1])
  THEN [sections |->
          Append(st.sections,
            [st.currentSection[1] EXCEPT
               !.endIndex = idx,
               !.content = JoinLines(
                  Slice(ls, st.currentSection[1].startIndex, idx + 1))]),
        currentSection |-> <<>>]
  ELSE st

\* CheckEndPatterns without line 221: the section it pushed stays open
CheckEndPatternsStayOpen(ls, idx, st) ==
  IF st.currentSection # <<>>
     /\ isEndPattern(st.currentSection[1].type, ls[idx + 1])
  THEN [sections |->
          Append(st.sections,
            [st.currentSection[1] EXCEPT
               !.endIndex = idx,
               !.content = JoinLines(
                  Slice(ls, st.currentSection[1].startIndex, idx + 1))]),
        currentSection |-> st.currentSection]
  ELSE st

\* lines 212-225 for line idx
CheckEndPatterns(ls, idx, st) ==
  IF st.currentSection # <<>>
     /\ isEndPattern(st.currentSection[1].type, ls[idx + 1])
  THEN [sections |->
          Append(st.sections,
            [st.currentSection[1] EXCEPT
               !.endIndex = idx,
               !.content = JoinLines(
                  Slice(ls, st.currentSection[1].startIndex, idx + 1))]),
        currentSection |-> <<>>]
  ELSE st

\* the iteration with the end patterns (lines 212-225) tested before the
\* start patterns (lines 186-210)
LoopBodyEndFirst(ls, idx, st) ==
  CheckStartPatterns(ls, idx, CheckEndPatterns(ls, idx, st))

\* one iteration of the loop of line 182
LoopBody(ls, idx, st) == CheckEndPatterns(ls, idx, CheckStartPatterns(ls, idx, st))

\* the sections once the loop has ended, without lines 229-232
WithoutLastSection(ls, st) == st.sections

\* lines 228-232: the sections once the loop has ended
WithLastSection(ls, st) ==
  IF st.currentSection # <<>>
  THEN Append(st.sections,
         [st.currentSection[1] EXCEPT
            !.content = JoinLines(
               Slice(ls, st.currentSection[1].startIndex, Len(ls)))])
  ELSE st.sections

(***************************************************************************)
(* Regular expressions (String.prototype.match, lines 386-533)             *)
(*                                                                         *)
(* A string is here the sequence of its characters.  An expression is a    *)
(* tree; Run gives, for a position in the string, the positions at which   *)
(* the expression can end, in the order in which the backtracking matcher  *)
(* of JavaScript tries them (greedy quantifiers, alternatives from left    *)
(* to right), each with the capture groups set on the way.                 *)
(***************************************************************************)
\* the characters cs, in lower case, whatever their case in the string
Lit(cs) == [k |-> "lit", cs |-> cs]

\* a character class [...] and a negated one [^...], cases folded
Set(S) == [k |-> "set", in |-> S, neg |-> FALSE]

NotSet(S) == [k |-> "set", in |-> S, neg |-> TRUE]

Cat(rs) == [k |-> "cat", rs |-> rs]

Alt(rs) == [k |-> "alt", rs |-> rs]

\* r?
Opt(r) == [k |-> "opt", r |-> r]

\* r*
Star(r) == [k |-> "star", r |-> r]

\* r+
Plus(r) == [k |-> "cat", rs |-> << r, Star(r) >>]

\* r{n}
Times(r, n) == [k |-> "cat", rs |-> [j \in 1..n |-> r]]

\* the n-th capture group (r)
Grp(n, r) == [k |-> "grp", n |-> n, r |-> r]

\* ^ and $ of an expression without the m flag
Bol == [k |-> "bol"]

Eol == [k |-> "eol"]

RECURSIVE Run(_, _, _)
RECURSIVE RunEach(_, _, _)
RECURSIVE RunSeq(_, _, _, _)
RECURSIVE RunAlt(_, _, _, _)
\* the ends of re from each of the states sts, in their order
RunEach(re, s, sts) ==
  IF sts = <<>> THEN <<>>
  ELSE IF Len(sts) = 1 THEN Run(re, s, sts[1])
  ELSE LET h == Len(sts) \div 2
       IN  RunEach(re, s, SubSeq(sts, 1, h))
           \o RunEach(re, s, SubSeq(sts, h + 1, Len(sts)))

\* the ends of rs[n], rs[n + 1], ... one after the other
RunSeq(rs, n, s, sts) ==
  IF n > Len(rs) \/ sts = <<>> THEN sts
  ELSE RunSeq(rs, n + 1, s, RunEach(rs[n], s, sts))

\* the ends of the alternatives rs[n], rs[n + 1], ...
RunAlt(rs, n, s, st) ==
  IF n > Len(rs) THEN <<>>
  ELSE Run(rs[n], s, st) \o RunAlt(rs, n + 1, s, st)

\* st is [pos, cap]: pos characters of s are consumed, cap[n] is <<>> or
\* <<from, to>>, the characters from + 1 .. to captured by group n
Run(re, s, st) ==
  CASE re.k = "lit" ->
         IF /\ st.pos + Len(re.cs) <= Len(s)
            /\ \A j \in 1..Len(re.cs) : LowerChar(s[st.pos + j]) = re.cs[j]
         THEN << [st EXCEPT !.pos = st.pos + Len(re.cs)] >>
         ELSE <<>>
    [] re.k = "set" ->
         IF /\ st.pos < Len(s)
            /\ (LowerChar(s[st.pos + 1]) \in re.in) # re.neg
         THEN << [st EXCEPT !.pos = st.pos + 1] >>
         ELSE <<>>
    [] re.k = "cat" -> RunSeq(re.rs, 1, s, << st >>)
    [] re.k = "alt" -> RunAlt(re.rs, 1, s, st)
    [] re.k = "opt" -> Run(re.r, s, st) \o << st >>
    [] re.k = "star" ->
         IF re.r.k = "set"
         THEN \* a run of n characters of the class: the longest end first
              LET In(j) == (LowerChar(s[st.pos + j]) \in re.r.in) # re.r.neg
                  n == CHOOSE m \in 0..(Len(s) - st.pos) :
                         /\ \A j \in 1..m : In(j)
                         /\ m < Len(s) - st.pos => ~In(m + 1)
              IN  [j \in 1..(n + 1) |-> [st EXCEPT !.pos = st.pos + n + 1 - j]]
         ELSE RunEach(re, s, SelectSeq(Run(re.r, s, st),
                                       LAMBDA x : x.pos > st.pos))
              \o << st >>
    [] re.k = "grp" ->
         LET ends == Run(re.r, s, st)
         IN  [j \in 1..Len(ends) |->
                [ends[j] EXCEPT !.cap[re.n] = << st.pos, ends[j].pos >>]]
    [] re.k = "bol" -> IF st.pos = 0 THEN << st >> ELSE <<>>
    [] re.k = "eol" -> IF st.pos = Len(s) THEN << st >> ELSE <<>>

\* the match of re in s that starts at position p, <<>> if there is none
MatchAt(re, s, p) ==
  LET ends == Run(re, s, [pos |-> p, cap |-> << <<>>, <<>> >>])
  IN  IF ends = <<>> THEN <<>>
      ELSE << [index  |-> p,
               groups |-> [n \in 1..2 |->
                             IF ends[1].cap[n] = <<>> THEN <<>>
                             ELSE SubSeq(s, ends[1].cap[n][1] + 1,
                                         ends[1].cap[n][2])]] >>

\* the match of re in s at the first of the positions lo..hi that has one
RECURSIVE FirstMatch(_, _, _, _)
FirstMatch(re, s, lo, hi) ==
  IF lo = hi THEN MatchAt(re, s, lo)
  ELSE LET mid  == (lo + hi) \div 2
           left == FirstMatch(re, s, lo, mid)
       IN  IF left # <<>> THEN left ELSE FirstMatch(re, s, mid + 1, hi)

\* String.prototype.match with an expression without the g flag: <<>> is
\* null, <<m>> the match with m.groups[n] the n-th capture
Match(re, s) == FirstMatch(re, s, 0, Len(s))

\* \s
WhiteSpace == {" ", NL}

\* String.prototype.trim
RECURSIVE Trim(_)
Trim(s) ==
  IF s = <<>> THEN s
  ELSE IF s[1] \in WhiteSpace THEN Trim(Tail(s))
  ELSE IF s[Len(s)] \in WhiteSpace THEN Trim(SubSeq(s, 1, Len(s) - 1))
  ELSE s

\* String.prototype.split('\n') on characters
RECURSIVE SplitChars(_)
SplitChars(s) ==
  IF \A k \in 1..Len(s) : s[k] # NL THEN << s >>
  ELSE LET k == CHOOSE k \in 1..Len(s) :
                  s[k] = NL /\ \A j \in 1..(k - 1) : s[j] # NL
       IN  << SubSeq(s, 1, k - 1) >> \o SplitChars(SubSeq(s, k + 1, Len(s)))

(***************************************************************************)
(* Field extraction (lines 351-544)                                        *)
(***************************************************************************)
\* \s*
Ws == Star(Set(WhiteSpace))

\* \s*:?\s*
Colon == Cat(<< Ws, Opt(Lit(<< ":" >>)), Ws >>)

\* (?:number|no\.?|#)?
NumberWord ==
  Opt(Alt(<< Lit(<< "n", "u", "m", "b", "e", "r" >>), Cat(<< Lit(<< "n", "o" >>), Opt(Lit(<< "." >>)) >>), Lit(<< "#" >>) >>))

\* ([A-Z0-9\-]+)
Code == Grp(1, Plus(Set(Letters \cup Digits \cup {"-"})))

\* ([A-Z]{3}\s*[\d,]+\.?\d*)
Money ==
  Grp(1, Cat(<< Times(Set(Letters), 3), Ws, Plus(Set(Digits \cup {","})),
                Opt(Lit(<< "." >>)), Star(Set(Digits)) >>))

\* ([^\n]+)
RestOfLine == Grp(1, Plus(NotSet({NL})))

\* line 386
LCNumberPattern ==
  Cat(<< Alt(<< Lit(<< "l", "c" >>),
                Lit(<< "l", "e", "t", "t", "e", "r", " ", "o", "f", " ", "c", "r", "e", "d", "i", "t" >>),
                Lit(<< "c", "r", "e", "d", "i", "t" >>) >>),
         Ws, NumberWord, Colon, Code >>)

\* line 396
AmountPattern ==
  Cat(<< Alt(<< Lit(<< "a", "m", "o", "u", "n", "t" >>), Lit(<< "v", "a", "l", "u", "e" >>) >>), Colon, Money >>)

\* line 406
BeneficiaryPattern == Cat(<< Lit(<< "b", "e", "n", "e", "f", "i", "c", "i", "a", "r", "y" >>), Colon, RestOfLine >>)

\* line 416
ApplicantPattern == Cat(<< Lit(<< "a", "p", "p", "l", "i", "c", "a", "n", "t" >>), Colon, RestOfLine >>)

\* line 432
InvoiceNumberPattern == Cat(<< Lit(<< "i", "n", "v", "o", "i", "c", "e" >>), Ws, NumberWord, Colon, Code >>)

\* line 442
TotalAmountPattern ==
  Cat(<< Alt(<< Lit(<< "t", "o", "t", "a", "l" >>), Lit(<< "g", "r", "a", "n", "d", " ", "t", "o", "t", "a", "l" >>) >>), Colon, Money >>)

\* line 458
BLNumberPattern ==
  Cat(<< Alt(<< Lit(<< "b", "/", "l" >>), Lit(<< "b", "i", "l", "l", " ", "o", "f", " ", "l", "a", "d", "i", "n", "g" >>) >>), Ws, NumberWord, Colon, Code >>)

\* line 468
VesselPattern == Cat(<< Lit(<< "v", "e", "s", "s", "e", "l" >>), Colon, RestOfLine >>)

\* line 484
PackagesPattern ==
  Cat(<< Opt(Cat(<< Lit(<< "t", "o", "t", "a", "l" >>), Plus(Set(WhiteSpace)) >>)),
         Lit(<< "p", "a", "c", "k", "a", "g", "e" >>), Opt(Lit(<< "s" >>)), Colon, Grp(1, Plus(Set(Digits))) >>)

\* line 500
CountryPattern ==
  Cat(<< Lit(<< "c", "o", "u", "n", "t", "r", "y" >>), Plus(Set(WhiteSpace)), Lit(<< "o", "f" >>), Plus(Set(WhiteSpace)),
         Lit(<< "o", "r", "i", "g", "i", "n" >>), Colon, RestOfLine >>)

\* line 516
PolicyNumberPattern == Cat(<< Lit(<< "p", "o", "l", "i", "c", "y" >>), Ws, NumberWord, Colon, Code >>)

\* line 533: /^([^:]+):\s*(.+)$/
KeyValuePattern ==
  Cat(<< Bol, Grp(1, Plus(NotSet({":"}))), Lit(<< ":" >>), Ws,
         Grp(2, Plus(NotSet({NL}))), Eol >>)

\* FieldOf pushing a field with an empty value for a rule without a match
FieldOfOrPlaceholder(match, fieldName, confidence) ==
  IF match = <<>>
  THEN << [fieldName  |-> fieldName,
           fieldValue |-> <<>>,
           confidence |-> confidence] >>
  ELSE << [fieldName  |-> fieldName,
           fieldValue |-> match[1].groups[1],
           confidence |-> confidence] >>

\* fields.push({fieldName, fieldValue: match[1], confidence}) if the
\* expression matched, nothing otherwise
FieldOf(match, fieldName, confidence) ==
  IF match = <<>> THEN <<>>
  ELSE << [fieldName  |-> fieldName,
           fieldValue |-> match[1].groups[1],
           confidence |-> confidence] >>

\* the same with fieldValue: match[1].trim()
TrimmedFieldOf(match, fieldName, confidence) ==
  IF match = <<>> THEN <<>>
  ELSE << [fieldName  |-> fieldName,
           fieldValue |-> Trim(match[1].groups[1]),
           confidence |-> confidence] >>

\* lines 382-426
extractLCFields(content, ls) ==
  FieldOf(Match(LCNumberPattern, content), "LC Number", D(180, 0))
  \o FieldOf(Match(AmountPattern, content), "Amount", D(170, 0))
  \o TrimmedFieldOf(Match(BeneficiaryPattern, content), "Beneficiary", D(160, 0))
  \o TrimmedFieldOf(Match(ApplicantPattern, content), "Applicant", D(160, 0))

\* lines 428-452
extractInvoiceFields(content, ls) ==
  FieldOf(Match(InvoiceNumberPattern, content), "Invoice Number", D(180, 0))
  \o FieldOf(Match(TotalAmountPattern, content), "Total Amount", D(170, 0))

\* lines 454-478
extractBLFields(content, ls) ==
  FieldOf(Match(BLNumberPattern, content), "B/L Number", D(180, 0))
  \o TrimmedFieldOf(Match(VesselPattern, content), "Vessel", D(160, 0))

\* lines 480-494
extractPackingListFields(content, ls) ==
  FieldOf(Match(PackagesPattern, content), "Total Packages", D(170, 0))

\* lines 496-510
extractOriginFields(content, ls) ==
  TrimmedFieldOf(Match(CountryPattern, content), "Country of Origin", D(180, 0))

\* lines 512-526
extractInsuranceFields(content, ls) ==
  FieldOf(Match(PolicyNumberPattern, content), "Policy Number", D(180, 0))

\* most fields extractGenericFields returns (line 543)
GenericLimit == 10

\* GenericFieldOf pushing a field with an empty value for a line that is
\* no pair
GenericFieldOfAnyLine(line) ==
  LET kvMatch == Match(KeyValuePattern, line)
  IN  IF /\ kvMatch # <<>>
         /\ Len(kvMatch[1].groups[1]) < 50
         /\ Len(kvMatch[1].groups[2]) < 200
      THEN << [fieldName  |-> Trim(kvMatch[1].groups[1]),
               fieldValue |-> Trim(kvMatch[1].groups[2]),
               confidence |-> D(120, 0)] >>
      ELSE << [fieldName  |-> Trim(line),
               fieldValue |-> <<>>,
               confidence |-> D(120, 0)] >>

\* lines 532-541: what the callback of forEach pushes for one line
GenericFieldOf(line) ==
  LET kvMatch == Match(KeyValuePattern, line)
  IN  IF /\ kvMatch # <<>>
         /\ Len(kvMatch[1].groups[1]) < 50
         /\ Len(kvMatch[1].groups[2]) < 200
      THEN << [fieldName  |-> Trim(kvMatch[1].groups[1]),
               fieldValue |-> Trim(kvMatch[1].groups[2]),
               confidence |-> D(120, 0)] >>
      ELSE <<>>

\* lines 532-541 for the lines from the k-th on
RECURSIVE GenericFieldsFrom(_, _)
GenericFieldsFrom(ls, k) ==
  IF k > Len(ls) THEN <<>>
  ELSE GenericFieldOf(ls[k]) \o GenericFieldsFrom(ls, k + 1)

\* FirstFields without the limit of line 543
FirstFieldsUnlimited(fs) == fs

\* line 543: fields.slice(0, 10)
FirstFields(fs) ==
  SubSeq(fs, 1, IF Len(fs) < GenericLimit THEN Len(fs) ELSE GenericLimit)

\* lines 528-544
extractGenericFields(content, ls) == FirstFields(GenericFieldsFrom(ls, 1))

\* lines 351-380; content is the sequence of the characters of the section
extractFieldsFromSection(content, documentType) ==
  LET ls == SplitChars(content)
  IN  CASE documentType = "Letter of Credit"      -> extractLCFields(content, ls)
        [] documentType = "Commercial Invoice"    -> extractInvoiceFields(content, ls)
        [] documentType = "Bill of Lading"        -> extractBLFields(content, ls)
        [] documentType = "Packing List"          -> extractPackingListFields(content, ls)
        [] documentType = "Certificate of Origin" -> extractOriginFields(content, ls)
        [] documentType = "Insurance Certificate" -> extractInsuranceFields(content, ls)
        [] OTHER                                  -> extractGenericFields(content, ls)

(***************************************************************************)
(* splitDocumentByFormType (lines 108-176)                                 *)
(***************************************************************************)
\* extractedText.replace(/\s+/g, ' ').trim(): every run of white space,
\* line feeds included, becomes one blank
NormalizeText(text) == Words(text)

\* line 114: split('\n'), trim each line, keep the non-empty ones
LinesOf(text) == NonEmptyLines(text)

\* sections kept at module level: an invocation starts with what the other
\* invocation has pushed
SharedSections(p) == sections[CHOOSE q \in Procs : q # p]

\* lines 179-180: the locals findDocumentSections starts with
NewSections(p) == <<>>

\* FallbackSection ending at lines.length instead of lines.length - 1
FallbackSectionPastEnd(text, ls) ==
  [type       |-> identifyDocumentType(text),
   startIndex |-> 0,
   endIndex   |-> Len(ls),
   content    |-> text,
   confidence |-> D(140, 0)]

\* lines 121-128: the section pushed when findDocumentSections returned none
FallbackSection(text, ls) ==
  [type       |-> identifyDocumentType(text),
   startIndex |-> 0,
   endIndex   |-> Len(ls) - 1,
   content    |-> text,
   confidence |-> D(140, 0)]

LinesPerPage == 50

\* content.split(' ').length
WordCount(s) ==
  1 + Cardinality({k \in 1..(Len(s) - 1) : BlankBetween(s[k], s[k + 1])})

\* an id stamped with the time instead of the index
SplitIdStamped(p, k) == <<documentId[p], "_split_", now>>

\* line 137: the id of the k-th split document
SplitId(p, k) == <<documentId[p], "_split_", k>>

\* lines 136-155
SplitDoc(p, section, k) ==
  [id                 |-> SplitId(p, k),
   originalDocumentId |-> documentId[p],
   splitIndex         |-> k,
   documentType       |-> section.type,
   content            |-> section.content,
   extractedText      |-> section.content,
   confidence         |-> section.confidence,
   extractedFields    |-> extractFieldsFromSection(CharsOf(section.content),
                                                   section.type),
   pageRange          |-> [start |-> (section.startIndex \div LinesPerPage) + 1,
                           end   |-> (section.endIndex \div LinesPerPage) + 1],
   metadata           |-> [lineStart      |-> section.startIndex,
                           lineEnd        |-> section.endIndex,
                           wordCount      |-> WordCount(section.content),
                           characterCount |-> StrLen(section.content)]]


(***************************************************************************)
(* Inputs                                                                  *)
(***************************************************************************)
\* the raw lines the input texts are made of
RawLines ==
  { <<>>,
    <<"hello", "world">>,
    <<"LETTER", "OF", "CREDIT">>,
    <<"LC", "NUMBER", "BENEFICIARY", "APPLICANT", "AMOUNT", "EXPIRY">>,
    <<"BENEFICIARY", "APPLICANT", "AMOUNT">>,
    <<"LC", "NUMBER", "BENEFICIARY", "APPLICANT", "AMOUNT", "EXPIRY",
      "DOCUMENTS", "REQUIRED">>,
    <<"UCP", "600">>,
    <<"BILL", "OF", "LADING">>,
    <<"VESSEL", "PORT", "CONSIGNEE", "SHIPPER">>,
    <<"SHIPPED", "ON", "BOARD">>,
    <<"CONSIGNEE", "SHIPPER", "CARGO">>,
    <<"PACKAGES">>,
    <<LongWord>> }

\* the lines handed to findDocumentSections on its own: the raw lines
\* that are not empty, and a line that matches a start pattern of two
\* signatures, Bill of Lading (VESSEL) and Packing List (PACKAGES)
SectionLines == (RawLines \ {<<>>}) \cup { <<"PACKAGES", "VESSEL">> }

\* the raw lines of the texts of two overlapping invocations
ConcRawLines ==
  { <<"hello", "world">>,
    <<"LC", "NUMBER", "BENEFICIARY", "APPLICANT", "AMOUNT", "EXPIRY">>,
    <<"VESSEL", "PORT", "CONSIGNEE", "SHIPPER">>,
    <<"PACKAGES">> }

\* Scenario A: an invoice header, its number and its total
ScenarioA ==
  << "COMMERCIAL", "INVOICE", NL,
     "INVOICE", "NUMBER", ":", "INV-123", NL,
     "TOTAL", "AMOUNT", ":", "USD", "500.00" >>

\* Scenario E: a letter of credit naming the beneficiary and the applicant
ScenarioE ==
  << "LETTER", "OF", "CREDIT", NL,
     "BENEFICIARY", ":", "ABC", "Trading", "Company", "Limited", NL,
     "APPLICANT", ":", "XYZ", "Corp" >>

\* a text without keyword or pattern that is a label and its value
KeyValueText == << "name", ":", "bob" >>

ScenarioTexts == { ScenarioA, ScenarioE, KeyValueText }

\* the lines of the sections handed to extractFieldsFromSection on its own
FieldLines ==
  { << "hello", "world" >>,
    << "LETTER", "OF", "CREDIT" >>,
    << "LC", "NUMBER", ":", "A-001" >>,
    << "AMOUNT", ":", "USD", "500.00" >>,
    << "BENEFICIARY", ":", "ABC", "Trading", "Company", "Limited" >>,
    << "INVOICE", "NUMBER", ":", "INV-123" >>,
    << "TOTAL", "AMOUNT", ":", "USD", "500.00" >>,
    << "TOTAL", ":", "USD", "500.00" >>,
    << "VESSEL", ":", "Ever", "Given" >>,
    << "PACKAGES", ":", "12" >>,
    << "COUNTRY", "OF", "ORIGIN", ":", "India" >>,
    << "POLICY", "NUMBER", ":", "P-9" >> }

\* the plain pair
PlainLine == << "name", ":", "bob" >>

\* the other lines handed to extractGenericFields on its own: another pair,
\* no pair, a label of 50 characters, a value of 201 characters
OddLines ==
  { << "AMOUNT", ":", "USD", "500.00" >>,
    << "hello", "world" >>,
    << LongLabel, ":", "bob" >>,
    << "name", ":", LongWord, LongWord >> }

\* the contents of the raw segments handed to refineSections on its own:
\* four short ones, and each of them followed by a line of 100 characters
RefineContents ==
  LET short == { <<"LC", "NUMBER", "BENEFICIARY", "APPLICANT", "AMOUNT", "EXPIRY",
                   "DOCUMENTS", "REQUIRED">>,
                 <<"BENEFICIARY", "APPLICANT", "AMOUNT">>,
                 <<"VESSEL", "PORT", "CONSIGNEE", "SHIPPER">>,
                 <<"PACKAGES">> }
  IN  short \cup {JoinLines(<<c, <<LongWord>> >>) : c \in short}

\* the raw segments handed to refineSections on its own, with the
\* confidence of a start line matching one or two start patterns
RawSections ==
  { [type       |-> t,
     startIndex |-> 0,
     endIndex   |-> 0,
     content    |-> c,
     confidence |-> D(q, 0)] :
      t \in {"Letter of Credit", "Bill of Lading", "Packing List"},
      c \in RefineContents, q \in {140, 180} }

\* the sequences of at most n elements of S
SeqsUpTo(S, n) == UNION {[1..k -> S] : k \in 0..n}

\* the texts of at most n raw lines
Texts(S, n) == {JoinLines(ls) : ls \in SeqsUpTo(S, n)}

(***************************************************************************)
(* Steps                                                                   *)
(***************************************************************************)
\* lines 110-117 and 179-180: normalize, split into lines, enter
\* findDocumentSections
Normalize(p) ==
  /\ pc[p] = "call"
  /\ normalizedText' = [normalizedText EXCEPT ![p] = NormalizeText(extractedText[p])]
  /\ lines' = [lines EXCEPT ![p] = LinesOf(NormalizeText(extractedText[p]))]
  /\ sections' = [sections EXCEPT ![p] = NewSections(p)]
  /\ currentSection' = [currentSection EXCEPT ![p] = <<>>]
  /\ i' = [i EXCEPT ![p] = 0]
  /\ pc' = [pc EXCEPT ![p] = "scan"]
  /\ UNCHANGED << progressVars, extractVars, registry, now, documentId, extractedText, documentSections,
                  usedFallback, splitDocuments, result >>

\* lines 182-226: one iteration of the loop over the lines
ScanLine(p) ==
  /\ pc[p] = "scan"
  /\ i[p] < Len(lines[p])
  /\ LET st == LoopBody(lines[p], i[p],
                 [sections |-> sections[p], currentSection |-> currentSection[p]])
     IN  /\ sections' = [sections EXCEPT ![p] = st.sections]
         /\ currentSection' = [currentSection EXCEPT ![p] = st.currentSection]
  /\ i' = [i EXCEPT ![p] = i[p] + 1]
  /\ UNCHANGED << progressVars, extractVars, registry, now, pc, documentId, extractedText, normalizedText,
                  lines, documentSections, usedFallback, splitDocuments, result >>

\* FinishScan starting the invocation over instead of returning the sections
FinishScanRestart(p) ==
  /\ pc[p] = "scan"
  /\ i[p] = Len(lines[p])
  /\ pc' = [pc EXCEPT ![p] = "call"]
  /\ UNCHANGED << progressVars, extractVars, registry, now, documentId, extractedText,
                  normalizedText, lines, i, sections, currentSection,
                  documentSections, usedFallback, splitDocuments, result >>

\* lines 228-235: close the open section, refine, return
FinishScan(p) ==
  /\ pc[p] = "scan"
  /\ i[p] = Len(lines[p])
  /\ LET all == WithLastSection(lines[p],
                  [sections |-> sections[p], currentSection |-> currentSection[p]])
     IN  /\ sections' = [sections EXCEPT ![p] = Rescored(all)]
         /\ documentSections' = [documentSections EXCEPT ![p] = refineSections(all)]
  /\ pc' = [pc EXCEPT ![p] = "sections"]
  /\ UNCHANGED << progressVars, extractVars, registry, now, documentId, extractedText, normalizedText, lines,
                  i, currentSection, usedFallback, splitDocuments, result >>

\* lines 119-163: the fallback section, the split documents, and the call of
\* saveSplitDocuments, at whose await the invocation is suspended
CreateSplitDocuments(p) ==
  /\ pc[p] = "sections"
  /\ LET ds == IF Len(documentSections[p]) = 0
               THEN <<FallbackSection(normalizedText[p], lines[p])>>
               ELSE documentSections[p]
     IN  /\ documentSections' = [documentSections EXCEPT ![p] = ds]
         /\ splitDocuments' =
              [splitDocuments EXCEPT ![p] =
                 [k \in 1..Len(ds) |-> SplitDoc(p, ds[k], k)]]
  /\ usedFallback' = [usedFallback EXCEPT ![p] = (Len(documentSections[p]) = 0)]
  /\ pc' = [pc EXCEPT ![p] = "await"]
  /\ UNCHANGED << progressVars, extractVars, registry, now, documentId, extractedText, normalizedText, lines,
                  i, sections, currentSection, result >>

\* lines 165-170: resumed after the await, the invocation returns
Return(p) ==
  /\ pc[p] = "await"
  /\ result' = [result EXCEPT ![p] =
                  << [originalDocumentId |-> documentId[p],
                      splitCount         |-> Len(splitDocuments[p]),
                      splitDocuments     |-> splitDocuments[p],
                      processingTime     |-> now] >>]
  /\ pc' = [pc EXCEPT ![p] = "done"]
  /\ UNCHANGED << progressVars, extractVars, registry, now, documentId, extractedText, normalizedText, lines,
                  i, sections, currentSection, documentSections, usedFallback,
                  splitDocuments >>

\* the caller invokes the function again, on the same document and text,
\* once the first invocation has returned
SecondCall ==
  /\ pc[1] = "done"
  /\ pc[2] = "idle"
  /\ pc' = [pc EXCEPT ![2] = "call"]
  /\ UNCHANGED << progressVars, extractVars, registry, now, documentId, extractedText, normalizedText, lines,
                  i, sections, currentSection, documentSections, usedFallback,
                  splitDocuments, result >>

\* time passes
Tick ==
  /\ now < MaxClock
  /\ now' = now + 1
  /\ UNCHANGED << progressVars, extractVars, registry, pc, documentId, extractedText, normalizedText, lines,
                  i, sections, currentSection, documentSections, usedFallback,
                  splitDocuments, result >>

\* the locals of an invocation before it has run
Fresh ==
  /\ normalizedText = [p \in Procs |-> <<>>]
  /\ lines = [p \in Procs |-> <<>>]
  /\ i = [p \in Procs |-> 0]
  /\ sections = [p \in Procs |-> <<>>]
  /\ currentSection = [p \in Procs |-> <<>>]
  /\ documentSections = [p \in Procs |-> <<>>]
  /\ usedFallback = [p \in Procs |-> FALSE]
  /\ splitDocuments = [p \in Procs |-> <<>>]
  /\ result = [p \in Procs |-> <<>>]

\* the processing runs of the document
Runs == {1, 2}

\* no processing run of the document
NoRun ==
  /\ service = "ocrService"
  /\ fileType = "application/pdf"
  /\ processingProgress = <<>>
  /\ rpc = [r \in Runs |-> "idle"]
  /\ kind = [r \in Runs |-> "upload"]
  /\ recorded = [r \in Runs |-> <<>>]
  /\ reports = [r \in Runs |-> <<>>]
  /\ timers = {}

\* no extractor is called on its own
NoExtraction ==
  /\ xpc = "idle"
  /\ sectionContent = <<>>
  /\ sectionType = UnknownDocument
  /\ fieldLines = <<>>
  /\ fields = <<>>

(***************************************************************************)
(* Spec: splitDocumentByFormType called on a text, and called again on     *)
(* the same text once it has returned                                      *)
(***************************************************************************)
Init ==
  /\ registry = DOCUMENT_SIGNATURES
  /\ now = 0
  /\ pc = [p \in Procs |-> IF p = 1 THEN "call" ELSE "idle"]
  /\ documentId = [p \in Procs |-> "doc"]
  /\ extractedText \in {[p \in Procs |-> t] :
                          t \in Texts(RawLines, MaxRawLines) \cup ScenarioTexts}
  /\ Fresh
  /\ NoExtraction
  /\ NoRun

Next ==
  \/ \E p \in Procs : Normalize(p)
  \/ \E p \in Procs : ScanLine(p)
  \/ \E p \in Procs : FinishScan(p)
  \/ \E p \in Procs : CreateSplitDocuments(p)
  \/ \E p \in Procs : Return(p)
  \/ SecondCall
  \/ Tick

Spec == Init /\ [][Next]_vars

(***************************************************************************)
(* SpecSections: findDocumentSections on its own, applied to any array of  *)
(* non-empty lines                                                         *)
(***************************************************************************)
InitSections ==
  /\ registry = DOCUMENT_SIGNATURES
  /\ now = 0
  /\ pc = [p \in Procs |-> IF p = 1 THEN "scan" ELSE "idle"]
  /\ documentId = [p \in Procs |-> "doc"]
  /\ extractedText = [p \in Procs |-> <<>>]
  /\ normalizedText = [p \in Procs |-> <<>>]
  /\ lines \in {[p \in Procs |-> IF p = 1 THEN ls ELSE <<>>] :
                  ls \in SeqsUpTo(SectionLines, MaxLines)}
  /\ i = [p \in Procs |-> 0]
  /\ sections = [p \in Procs |-> <<>>]
  /\ currentSection = [p \in Procs |-> <<>>]
  /\ documentSections = [p \in Procs |-> <<>>]
  /\ usedFallback = [p \in Procs |-> FALSE]
  /\ splitDocuments = [p \in Procs |-> <<>>]
  /\ result = [p \in Procs |-> <<>>]
  /\ NoExtraction
  /\ NoRun

NextSections ==
  \/ \E p \in Procs : ScanLine(p)
  \/ \E p \in Procs : FinishScan(p)

SpecSections == InitSections /\ [][NextSections]_vars

(***************************************************************************)
(* SpecConc: two invocations on two documents, overlapping in any way      *)
(***************************************************************************)
InitConc ==
  /\ registry = DOCUMENT_SIGNATURES
  /\ now = 0
  /\ pc = [p \in Procs |-> "call"]
  /\ documentId = [p \in Procs |-> IF p = 1 THEN "docA" ELSE "docB"]
  /\ extractedText \in [Procs -> Texts(ConcRawLines, MaxConcLines)]
  /\ Fresh
  /\ NoExtraction
  /\ NoRun

NextConc ==
  \/ \E p \in Procs : Normalize(p)
  \/ \E p \in Procs : ScanLine(p)
  \/ \E p \in Procs : FinishScan(p)
  \/ \E p \in Procs : CreateSplitDocuments(p)
  \/ \E p \in Procs : Return(p)

SpecConc == InitConc /\ [][NextConc]_vars

(***************************************************************************)
(* SpecTotal: one invocation of splitDocumentByFormType run to its end.    *)
(* The function body is synchronous code, and the promise it awaits is     *)
(* that of saveSplitDocuments, which resolves: an invocation that can take *)
(* a step takes it.  Every step moves pc or i, and the fairness condition  *)
(* is stated on these two.                                                 *)
(***************************************************************************)
\* a step of invocation p
Step(p) ==
  \/ Normalize(p)
  \/ ScanLine(p)
  \/ FinishScan(p)
  \/ CreateSplitDocuments(p)
  \/ Return(p)

\* what a step of invocation p does to pc and i
ControlStep(p) ==
  \/ /\ pc[p] = "call"
     /\ pc' = [pc EXCEPT ![p] = "scan"]
     /\ i' = [i EXCEPT ![p] = 0]
  \/ /\ pc[p] = "scan"
     /\ i[p] < Len(lines[p])
     /\ i' = [i EXCEPT ![p] = i[p] + 1]
     /\ pc' = pc
  \/ /\ pc[p] = "scan"
     /\ i[p] = Len(lines[p])
     /\ pc' = [pc EXCEPT ![p] = "sections"]
     /\ i' = i
  \/ /\ pc[p] = "sections"
     /\ pc' = [pc EXCEPT ![p] = "await"]
     /\ i' = i
  \/ /\ pc[p] = "await"
     /\ pc' = [pc EXCEPT ![p] = "done"]
     /\ i' = i

NextTotal == \E p \in Procs : Step(p)

SpecTotal ==
  Init /\ [][NextTotal]_vars /\ WF_<<pc, i>>(\E p \in Procs : ControlStep(p))

(***************************************************************************)
(* SpecFields: extractFieldsFromSection on its own, applied to a section   *)
(* of any type made of any lines                                           *)
(***************************************************************************)
\* lines 351-380
ExtractFields ==
  /\ xpc = "call"
  /\ fields' = extractFieldsFromSection(sectionContent, sectionType)
  /\ xpc' = "done"
  /\ UNCHANGED << progressVars, registry, now, pc, documentId, extractedText,
                  normalizedText, lines, i, sections, currentSection, documentSections,
                  usedFallback, splitDocuments, result,
                  sectionContent, sectionType, fieldLines >>

\* no invocation of splitDocumentByFormType
NoInvocation ==
  /\ registry = DOCUMENT_SIGNATURES
  /\ now = 0
  /\ pc = [p \in Procs |-> "idle"]
  /\ documentId = [p \in Procs |-> "doc"]
  /\ extractedText = [p \in Procs |-> <<>>]
  /\ Fresh

InitFields ==
  /\ NoInvocation
  /\ NoRun
  /\ xpc = "call"
  /\ fieldLines \in SeqsUpTo(FieldLines, MaxFieldLines)
  /\ sectionContent = CharsOf(JoinLines(fieldLines))
  /\ sectionType \in {DocTypes[k] : k \in 1..Len(DocTypes)} \cup {UnknownDocument}
  /\ fields = <<>>

NextFields == ExtractFields

SpecFields == InitFields /\ [][NextFields]_vars

(***************************************************************************)
(* SpecGeneric: extractGenericFields on its own, applied to any array of   *)
(* lines; the array is told line by line as forEach visits it              *)
(***************************************************************************)
\* lines 532-541: the callback of forEach on the next line of the array
GenericLine ==
  /\ xpc = "each"
  /\ Len(fieldLines) < MaxGenericLines
  /\ \E line \in {PlainLine} \cup OddLines :
       /\ line # PlainLine =>
            Cardinality({k \in 1..Len(fieldLines) : fieldLines[k] # PlainLine})
              < MaxOddLines
       /\ fieldLines' = Append(fieldLines, line)
       /\ fields' = fields \o GenericFieldOf(CharsOf(line))
  /\ UNCHANGED << progressVars, registry, now, pc, documentId, extractedText,
                  normalizedText, lines, i, sections, currentSection, documentSections,
                  usedFallback, splitDocuments, result,
                  xpc, sectionContent, sectionType >>

\* line 543: the array has been visited, the first ten fields are returned
GenericReturn ==
  /\ xpc = "each"
  /\ fields' = FirstFields(fields)
  /\ xpc' = "done"
  /\ UNCHANGED << progressVars, registry, now, pc, documentId, extractedText,
                  normalizedText, lines, i, sections, currentSection, documentSections,
                  usedFallback, splitDocuments, result,
                  sectionContent, sectionType, fieldLines >>

InitGeneric ==
  /\ NoInvocation
  /\ NoRun
  /\ xpc = "each"
  /\ fieldLines = <<>>
  /\ sectionContent = <<>>
  /\ sectionType = UnknownDocument
  /\ fields = <<>>

NextGeneric ==
  \/ GenericLine
  \/ GenericReturn

SpecGeneric == InitGeneric /\ [][NextGeneric]_vars

(***************************************************************************)
(* SpecRefine: refineSections on its own, applied to any array of raw      *)
(* segments                                                                *)
(***************************************************************************)
\* lines 238-253: refineSections(sections, fullText)
Refine(p) ==
  /\ pc[p] = "refine"
  /\ sections' = [sections EXCEPT ![p] = Rescored(sections[p])]
  /\ documentSections' = [documentSections EXCEPT ![p] = refineSections(sections[p])]
  /\ pc' = [pc EXCEPT ![p] = "sections"]
  /\ UNCHANGED << progressVars, extractVars, registry, now, documentId, extractedText,
                  normalizedText, lines, i, currentSection, usedFallback,
                  splitDocuments, result >>

InitRefine ==
  /\ registry = DOCUMENT_SIGNATURES
  /\ now = 0
  /\ pc = [p \in Procs |-> IF p = 1 THEN "refine" ELSE "idle"]
  /\ documentId = [p \in Procs |-> "doc"]
  /\ extractedText = [p \in Procs |-> <<>>]
  /\ normalizedText = [p \in Procs |-> <<>>]
  /\ lines = [p \in Procs |-> <<>>]
  /\ i = [p \in Procs |-> 0]
  /\ sections \in {[p \in Procs |-> IF p = 1 THEN secs ELSE <<>>] :
                     secs \in SeqsUpTo(RawSections, MaxRefined)}
  /\ currentSection = [p \in Procs |-> <<>>]
  /\ documentSections = [p \in Procs |-> <<>>]
  /\ usedFallback = [p \in Procs |-> FALSE]
  /\ splitDocuments = [p \in Procs |-> <<>>]
  /\ result = [p \in Procs |-> <<>>]
  /\ NoExtraction
  /\ NoRun

NextRefine == \E p \in Procs : Refine(p)

SpecRefine == InitRefine /\ [][NextRefine]_vars

(***************************************************************************)
(* SpecProgress: the processing runs of one document, the upload run and a *)
(* run started by the process or the reprocess route, and the Map          *)
(* processingProgress they write to (documents.js, ocrService.js,          *)
(* pythonRunner.js, enhancedOCR.js)                                        *)
(***************************************************************************)
\* one call of updateProgress: its stage and its progress
Update(stage, progress) == [stage |-> stage, progress |-> progress]

\* run r calls updateProgress with each of updates in turn, without an
\* await in between: the Map keeps the last one
Record(r, updates) ==
  /\ recorded' = [recorded EXCEPT ![r] = @ \o updates]
  /\ processingProgress' =
       << [stage    |-> updates[Len(updates)].stage,
           progress |-> updates[Len(updates)].progress,
           by       |-> r] >>

\* Math.round(progress * factor / 100), for the factors 30, 25 and 15
Scaled(progress, factor) == (progress * factor + 50) \div 100

\* the percentages m.progress * 100 the logger of Tesseract may be given
ReportValues == {50, 100}

\* lines 60-70 of processDocument once the text is there:
\* updateProgress 60 and 70, then await splitDocumentByFormType
Analyze == << Update("processing", 60), Update("processing", 70) >>

\* the catch of the OCR: updateProgress 40, the mock text, then Analyze
Mocked == << Update("processing", 40) >> \o Analyze

\* the route handler up to its first await after updateProgress
RouteStart(r) ==
  /\ rpc[r] = "idle"
  /\ r = 2 => rpc[1] # "idle"
  /\ Record(r, CASE kind[r] = "upload"    -> << Update("uploaded", 0) >>
                 [] kind[r] = "process"   -> << Update("processing", 10) >>
                 [] kind[r] = "reprocess" -> << Update("reprocessing", 10) >>)
  /\ rpc' = [rpc EXCEPT ![r] = "queued"]
  /\ UNCHANGED << splitVars, extractVars, service, fileType, kind, reports, timers >>

\* the callback of setImmediate up to its first await: of the upload route
\* that is the one of line 102, of the other routes the first one of
\* processDocument (reprocessDocument calls updateProgress before it)
Background(r) ==
  /\ rpc[r] = "queued"
  /\ Record(r, CASE kind[r] = "upload"    -> << Update("processing", 10) >>
                 [] kind[r] = "process"   -> << Update("processing", 15) >>
                 [] kind[r] = "reprocess" -> << Update("reprocessing", 10),
                                                Update("processing", 15) >>)
  /\ rpc' = [rpc EXCEPT ![r] = IF kind[r] = "upload" THEN "called" ELSE "get"]
  /\ UNCHANGED << splitVars, extractVars, service, fileType, kind, reports, timers >>

\* processDocument called by the upload route, up to its first await
ProcessDocument(r) ==
  /\ rpc[r] = "called"
  /\ Record(r, << Update("processing", 15) >>)
  /\ rpc' = [rpc EXCEPT ![r] = "get"]
  /\ UNCHANGED << splitVars, extractVars, service, fileType, kind, reports, timers >>

\* getDocumentById has answered: the document, or none, which is thrown
\* and caught at the end of processDocument
GetDocument(r) ==
  /\ rpc[r] = "get"
  /\ \E found \in BOOLEAN :
       IF found
       THEN /\ Record(r, << Update("processing", 20) >>)
            /\ rpc' = [rpc EXCEPT ![r] = "status"]
       ELSE /\ Record(r, << Update("error", 0) >>)
            /\ rpc' = [rpc EXCEPT ![r] = "failed"]
  /\ UNCHANGED << splitVars, extractVars, service, fileType, kind, reports, timers >>

\* what processDocument hands to updateProgress before the OCR
BeforeOCR ==
  IF service = "ocrService" THEN << Update("processing", 30) >>
  ELSE << Update("processing", 25) >>

\* the document status is written: the OCR starts, by file type, up to its
\* first await; a missing file and another file type are thrown and caught
StartOCR(r) ==
  /\ rpc[r] = "status"
  /\ \E exists \in BOOLEAN :
       CASE fileType = "image/png" /\ exists ->
              /\ Record(r, BeforeOCR \o
                           (IF service = "ocrService" THEN <<>>
                            ELSE << Update("processing", 30) >>))
              /\ rpc' = [rpc EXCEPT ![r] = "pass1"]
         [] fileType = "application/pdf" /\ exists ->
              /\ Record(r, BeforeOCR \o << Update("processing", 35) >> \o
                           (IF service = "ocrService" THEN <<>>
                            ELSE << Update("processing", 55) >>))
              /\ rpc' = [rpc EXCEPT ![r] = "pdf"]
         [] OTHER ->
              /\ fileType = "application/pdf" => service = "ocrService"
              /\ Record(r, BeforeOCR \o
                           (IF fileType = "application/pdf"
                            THEN << Update("processing", 35) >> ELSE <<>>)
                           \o Mocked)
              /\ rpc' = [rpc EXCEPT ![r] = "split"]
  /\ reports' = [reports EXCEPT ![r] = <<>>]
  /\ UNCHANGED << splitVars, extractVars, service, fileType, kind, timers >>

\* the logger of Tesseract.recognize is given a message 'recognizing text'
Report(r) ==
  /\ rpc[r] \in {"pass1", "pass2"}
  /\ Len(reports[r]) < MaxReports
  /\ \E progress \in ReportValues :
       /\ \A k \in 1..Len(reports[r]) : reports[r][k] <= progress
       /\ reports' = [reports EXCEPT ![r] = Append(@, progress)]
       /\ Record(r, << Update("processing",
                         CASE service = "ocrService" -> 30 + Scaled(progress, 30)
                           [] rpc[r] = "pass1"       -> 30 + Scaled(progress, 25)
                           [] OTHER                  -> 55 + Scaled(progress, 15)) >>)
  /\ UNCHANGED << splitVars, extractVars, service, fileType, rpc, kind, timers >>

\* Tesseract.recognize resolves
PassResolves(r) ==
  /\ rpc[r] \in {"pass1", "pass2"}
  /\ CASE service = "ocrService" ->
            /\ Record(r, Analyze)
            /\ rpc' = [rpc EXCEPT ![r] = "split"]
       [] rpc[r] = "pass1" ->
            /\ Record(r, << Update("processing", 55) >>)
            /\ rpc' = [rpc EXCEPT ![r] = "pass2"]
       [] OTHER ->
            /\ Record(r, << Update("processing", 70), Update("processing", 75) >>
                         \o Analyze)
            /\ rpc' = [rpc EXCEPT ![r] = "split"]
  /\ reports' = [reports EXCEPT ![r] = <<>>]
  /\ UNCHANGED << splitVars, extractVars, service, fileType, kind, timers >>

\* Tesseract.recognize or runPythonOCR rejects: the catch of the OCR
OCRRejects(r) ==
  /\ \/ rpc[r] \in {"pass1", "pass2"}
     \/ rpc[r] = "pdf" /\ service = "ocrService"
  /\ Record(r, Mocked)
  /\ rpc' = [rpc EXCEPT ![r] = "split"]
  /\ reports' = [reports EXCEPT ![r] = <<>>]
  /\ UNCHANGED << splitVars, extractVars, service, fileType, kind, timers >>

\* the text of the PDF is there
PDFResolves(r) ==
  /\ rpc[r] = "pdf"
  /\ Record(r, (IF service = "ocrService"
                THEN << Update("processing", 55) >> ELSE <<>>) \o Analyze)
  /\ rpc' = [rpc EXCEPT ![r] = "split"]
  /\ UNCHANGED << splitVars, extractVars, service, fileType, kind, reports, timers >>

\* splitDocumentByFormType has returned
SplitReturns(r) ==
  /\ rpc[r] = "split"
  /\ Record(r, << Update("processing", IF service = "ocrService" THEN 85 ELSE 80),
                  Update("processing", 90) >>)
  /\ rpc' = [rpc EXCEPT ![r] = "save"]
  /\ UNCHANGED << splitVars, extractVars, service, fileType, kind, reports, timers >>

\* the cleaned document and the status are written: processDocument
\* records the completion and returns
Finish(r) ==
  /\ rpc[r] = "save"
  /\ Record(r, << Update("completed", 100) >>)
  /\ rpc' = [rpc EXCEPT ![r] = "returned"]
  /\ UNCHANGED << splitVars, extractVars, service, fileType, kind, reports, timers >>

\* the route after processDocument: it records the completion and sets the
\* timer of five minutes
RouteCompletes(r) ==
  /\ rpc[r] = "returned"
  /\ Record(r, << Update("completed", 100) >>)
  /\ timers' = timers \cup {r}
  /\ rpc' = [rpc EXCEPT ![r] = "done"]
  /\ UNCHANGED << splitVars, extractVars, service, fileType, kind, reports >>

\* the catch of the route (after the one of reprocessDocument)
RouteFails(r) ==
  /\ rpc[r] = "failed"
  /\ Record(r, IF kind[r] = "reprocess"
               THEN << Update("error", 0), Update("error", 0) >>
               ELSE << Update("error", 0) >>)
  /\ rpc' = [rpc EXCEPT ![r] = "done"]
  /\ UNCHANGED << splitVars, extractVars, service, fileType, kind, reports, timers >>

\* the timer set by run r fires: processingProgress.delete(documentId)
Cleanup(r) ==
  /\ r \in timers
  /\ processingProgress' = <<>>
  /\ timers' = timers \ {r}
  /\ UNCHANGED << splitVars, extractVars, service, fileType, rpc, kind, recorded, reports >>

\* the document is uploaded, and processed again by one of the two routes
InitProgress ==
  /\ NoInvocation
  /\ NoExtraction
  /\ service \in {"ocrService", "enhancedOCR"}
  /\ fileType \in {"image/png", "application/pdf", "text/plain"}
  /\ processingProgress = <<>>
  /\ rpc = [r \in Runs |-> "idle"]
  /\ kind \in {[r \in Runs |-> IF r = 1 THEN "upload" ELSE k] :
                 k \in {"process", "reprocess"}}
  /\ recorded = [r \in Runs |-> <<>>]
  /\ reports = [r \in Runs |-> <<>>]
  /\ timers = {}

NextProgress ==
  \/ \E r \in Runs : RouteStart(r)
  \/ \E r \in Runs : Background(r)
  \/ \E r \in Runs : ProcessDocument(r)
  \/ \E r \in Runs : GetDocument(r)
  \/ \E r \in Runs : StartOCR(r)
  \/ \E r \in Runs : Report(r)
  \/ \E r \in Runs : PassResolves(r)
  \/ \E r \in Runs : OCRRejects(r)
  \/ \E r \in Runs : PDFResolves(r)
  \/ \E r \in Runs : SplitReturns(r)
  \/ \E r \in Runs : Finish(r)
  \/ \E r \in Runs : RouteCompletes(r)
  \/ \E r \in Runs : RouteFails(r)
  \/ \E r \in Runs : Cleanup(r)

SpecProgress == InitProgress /\ [][NextProgress]_vars

(***************************************************************************)
(* The functions as wholes                                                 *)
(***************************************************************************)
\* the loop of line 182 from line idx on
RECURSIVE ScanFrom(_, _, _)
ScanFrom(ls, idx, st) ==
  IF idx >= Len(ls) THEN st
  ELSE ScanFrom(ls, idx + 1, LoopBody(ls, idx, st))

\* lines 178-236
findDocumentSections(ls) ==
  refineSections(
    WithLastSection(ls,
      ScanFrom(ls, 0, [sections |-> <<>>, currentSection |-> <<>>])))

\* lines 113-158: the split documents of invocation p, were it run on its own
splitDocumentByFormType(p) ==
  LET text  == NormalizeText(extractedText[p])
      ls    == LinesOf(text)
      found == findDocumentSections(ls)
      ds    == IF Len(found) = 0 THEN <<FallbackSection(text, ls)>> ELSE found
  IN  [k \in 1..Len(ds) |-> SplitDoc(p, ds[k], k)]

(***************************************************************************)
(* Vocabulary of the properties                                            *)
(***************************************************************************)
Done(p) == pc[p] = "done"

\* the segment list an invocation has returned
Returned(p) == result[p][1].splitDocuments

IndexOfType(t) == CHOOSE k \in 1..Len(DocTypes) : DocTypes[k] = t

\* the raw lines of a text, as its author wrote them
RawLinesOf(text) == SplitLines(text)

\* block is a run of lines that starts with a start pattern of type t and
\* holds no start pattern that the registry gives to another type
IsBlockOf(t, block) ==
  /\ Len(block) >= 1
  /\ FirstStartType(block[1]) = IndexOfType(t)
  /\ \A k \in 1..Len(block) :
       block[k] # <<>> /\ FirstStartType(block[k]) \in {0, IndexOfType(t)}

\* text is a Letter-of-Credit block followed by a Bill-of-Lading block
LCThenBL(text) ==
  LET rl == RawLinesOf(text)
  IN  \E k \in 1..(Len(rl) - 1) :
        /\ IsBlockOf("Letter of Credit", SubSeq(rl, 1, k))
        /\ IsBlockOf("Bill of Lading", SubSeq(rl, k + 1, Len(rl)))

\* the sections the boundary detector found for p, rescored: all of them
\* have a refined confidence of at most 0.3 (none found included)
AllBelowThreshold(p) ==
  \A k \in 1..Len(sections[p]) : Le(sections[p][k].confidence, D(60, 0))

\* some line of p matched a start pattern
SomeStartMatched(p) ==
  \E k \in 1..Len(lines[p]) : FirstStartType(lines[p][k]) # 0

\* the returned list is exactly the fallback segment of lines 121-128
IsFallbackOnly(p) ==
  /\ Len(Returned(p)) = 1
  /\ Returned(p)[1].documentType = identifyDocumentType(normalizedText[p])
  /\ Returned(p)[1].metadata.lineStart = 0
  /\ Returned(p)[1].metadata.lineEnd = Len(lines[p]) - 1
  /\ Returned(p)[1].content = normalizedText[p]
  /\ Returned(p)[1].confidence = D(140, 0)

(***************************************************************************)
(* C1: a Letter-of-Credit block followed by a Bill-of-Lading block on      *)
(* later lines comes back as exactly two segments, in input order, typed   *)
(* "Letter of Credit" and "Bill of Lading".                                *)
(***************************************************************************)
C1_TwoSegmentsInOrder ==
  \A p \in Procs :
    (Done(p) /\ LCThenBL(extractedText[p])) =>
      /\ result[p][1].splitCount = 2
      /\ Len(Returned(p)) = 2
      /\ Returned(p)[1].documentType = "Letter of Credit"
      /\ Returned(p)[2].documentType = "Bill of Lading"

(***************************************************************************)
(* C2: for an empty or white-space-only text the pipeline returns an empty *)
(* segment list (splitCount = 0).                                          *)
(***************************************************************************)
C2_BlankInputEmptyList ==
  \A p \in Procs :
    (Done(p) /\ Words(extractedText[p]) = <<>>) =>
      /\ result[p][1].splitCount = 0
      /\ Returned(p) = <<>>

(***************************************************************************)
(* C3, as claimed: when a start pattern matched and every candidate        *)
(* segment has a refined confidence <= 0.3, the pipeline returns an empty  *)
(* list.                                                                   *)
(***************************************************************************)
C3_AllDroppedEmptyList ==
  \A p \in Procs :
    (Done(p) /\ SomeStartMatched(p) /\ AllBelowThreshold(p)) =>
      Returned(p) = <<>>

(***************************************************************************)
(* C3, amended: when a start pattern matched and every candidate segment   *)
(* has a refined confidence <= 0.3, the pipeline returns exactly one       *)
(* segment, the fallback: lines 0 to the last, the whole normalized text,  *)
(* confidence 0.7, typed by identifyDocumentType; none of the dropped      *)
(* candidates is returned.                                                 *)
(***************************************************************************)
C3_AllDroppedFallback ==
  \A p \in Procs :
    (Done(p) /\ SomeStartMatched(p) /\ AllBelowThreshold(p)) =>
      /\ result[p][1].splitCount = 1
      /\ usedFallback[p]
      /\ IsFallbackOnly(p)

C3_Witness ==
  \E p \in Procs :
    /\ Done(p)
    /\ SomeStartMatched(p)
    /\ Len(sections[p]) >= 1
    /\ AllBelowThreshold(p)

(***************************************************************************)
(* C4, as claimed: the fallback segment is synthesized exactly when no     *)
(* start pattern matched any line; then the output is that one segment.    *)
(***************************************************************************)
C4_FallbackIffNoStart ==
  \A p \in Procs :
    Done(p) =>
      /\ usedFallback[p] <=> ~SomeStartMatched(p)
      /\ usedFallback[p] => IsFallbackOnly(p)

(***************************************************************************)
(* C4, amended: the fallback segment is synthesized exactly when           *)
(* findDocumentSections returns no segment, that is when no start pattern  *)
(* matched or every detected segment was dropped with confidence <= 0.3;   *)
(* then the output is exactly that one segment (lines 0 to the number of   *)
(* lines - 1, the whole normalized text, confidence 0.7, typed by          *)
(* identifyDocumentType); otherwise the output is the surviving detected   *)
(* segments and no fallback.                                               *)
(***************************************************************************)
C4_FallbackIffNoneLeft ==
  \A p \in Procs :
    Done(p) =>
      /\ usedFallback[p] <=> AllBelowThreshold(p)
      /\ ~SomeStartMatched(p) => usedFallback[p]
      /\ usedFallback[p] => IsFallbackOnly(p)
      /\ ~usedFallback[p] =>
           LET kept == SelectSeq(sections[p],
                         LAMBDA section : Gt(section.confidence, D(60, 0)))
           IN  /\ Len(Returned(p)) = Len(kept)
               /\ \A k \in 1..Len(kept) :
                    /\ Returned(p)[k].documentType = kept[k].type
                    /\ Returned(p)[k].metadata.lineStart = kept[k].startIndex
                    /\ Returned(p)[k].metadata.lineEnd = kept[k].endIndex
                    /\ Returned(p)[k].confidence = kept[k].confidence

C4_Witness ==
  \E p \in Procs :
    /\ Done(p)
    /\ usedFallback[p]
    /\ SomeStartMatched(p)
    /\ Returned(p)[1].documentType \in {DocTypes[k] : k \in 1..Len(DocTypes)}


(***************************************************************************)
(* C5: in the list findDocumentSections returns, the segments are in line  *)
(* order and their line ranges do not overlap: endIndex of each is         *)
(* strictly less than startIndex of the next.                              *)
(***************************************************************************)
C5_OrderedNoOverlap ==
  \A p \in Procs :
    pc[p] = "sections" =>
      \A k \in 1..(Len(documentSections[p]) - 1) :
        /\ documentSections[p][k].startIndex <= documentSections[p][k].endIndex
        /\ documentSections[p][k].endIndex < documentSections[p][k + 1].startIndex

C5_Witness ==
  \E p \in Procs :
    /\ pc[p] = "sections"
    /\ Len(documentSections[p]) >= 2
    /\ Len(sections[p]) > Len(documentSections[p])

(***************************************************************************)
(* C6: called twice on the same document and text, the pipeline returns    *)
(* identical segment lists (number, ids, types, line ranges, contents,     *)
(* confidences), whatever the wall clock reads and whatever the first      *)
(* call left behind.                                                       *)
(***************************************************************************)
C6_SameInputSameSegments ==
  (Done(1) /\ Done(2)) =>
    /\ result[2][1].splitCount = result[1][1].splitCount
    /\ Returned(2) = Returned(1)

C6_Witness ==
  /\ Done(1)
  /\ Done(2)
  /\ result[1][1].processingTime # result[2][1].processingTime
  /\ ~usedFallback[2]
  /\ Len(Returned(2)) >= 1

(***************************************************************************)
(* C7: of two invocations on two documents that overlap in any way, each   *)
(* builds and returns the segment list it would build alone, and the       *)
(* signature registry stays as it was defined.                             *)
(***************************************************************************)
C7_OverlapLeavesResultsAlone ==
  /\ registry = DOCUMENT_SIGNATURES
  /\ \A p \in Procs :
       /\ pc[p] \in {"await", "done"} => splitDocuments[p] = splitDocumentByFormType(p)
       /\ Done(p) => Returned(p) = splitDocumentByFormType(p)

C7_Witness ==
  /\ pc[1] = "await"
  /\ pc[2] = "await"
  /\ extractedText[1] # extractedText[2]
  /\ ~usedFallback[1]
  /\ ~usedFallback[2]
  /\ splitDocuments[1][1].documentType # splitDocuments[2][1].documentType

(***************************************************************************)
(* C8: when the line to scan matches a start pattern of the type of the    *)
(* open section (that type being the one the registry order selects, and   *)
(* the line matching none of its end patterns), scanning the line emits    *)
(* no section and leaves the open section with its start line.             *)
(***************************************************************************)
SameTypeStartAhead(p) ==
  /\ pc[p] = "scan"
  /\ i[p] < Len(lines[p])
  /\ currentSection[p] # <<>>
  /\ FirstStartType(lines[p][i[p] + 1]) # 0
  /\ DocTypes[FirstStartType(lines[p][i[p] + 1])] = currentSection[p][1].type
  /\ ~isEndPattern(currentSection[p][1].type, lines[p][i[p] + 1])

C9_ConfidenceInUnitInterval ==
  \A p \in Procs :
    Done(p) =>
      \A k \in 1..Len(Returned(p)) :
        /\ Le(D(0, 0), Returned(p)[k].confidence)
        /\ Le(Returned(p)[k].confidence, D(200, 0))

C9_Witness ==
  \E p \in Procs :
    /\ Done(p)
    /\ ~usedFallback[p]
    /\ Len(Returned(p)) >= 1
    /\ StrLen(Returned(p)[1].content) < 100
    /\ Gt(Returned(p)[1].confidence, D(60, 0))

(***************************************************************************)
(* C10: every returned segment is typed with one of the six names of the   *)
(* registry or with "Unknown Document", and "Unknown Document" occurs on   *)
(* the fallback segment only.                                              *)
(***************************************************************************)
C10_TypesClosed ==
  \A p \in Procs :
    Done(p) =>
      \A k \in 1..Len(Returned(p)) :
        /\ Returned(p)[k].documentType \in
             { "Letter of Credit", "Commercial Invoice", "Bill of Lading",
               "Packing List", "Certificate of Origin", "Insurance Certificate",
               "Unknown Document" }
        /\ Returned(p)[k].documentType = "Unknown Document" => usedFallback[p]

C10_Witness ==
  \E p \in Procs :
    /\ Done(p)
    /\ usedFallback[p]
    /\ Returned(p)[1].documentType = "Unknown Document"
    /\ SomeStartMatched(p)

(***************************************************************************)
(* C11: the refiner returns a subsequence of the raw segments: it returns  *)
(* no more segments than it was given, it drops a raw segment exactly when *)
(* the final confidence of that segment is at most 0.3, and the segments   *)
(* it keeps stand in the order they had.                                   *)
(***************************************************************************)
\* the positions, among the raw segments of p, of those with a final
\* confidence above 0.3
KeptPositions(p) ==
  {k \in 1..Len(sections[p]) : Gt(sections[p][k].confidence, D(60, 0))}

C11_RefinerSubsequence ==
  \A p \in Procs :
    pc[p] = "sections" =>
      /\ Len(documentSections[p]) <= Len(sections[p])
      /\ Len(documentSections[p]) = Cardinality(KeptPositions(p))
      /\ \A k \in KeptPositions(p) :
           documentSections[p][Cardinality({j \in KeptPositions(p) : j <= k})]
             = sections[p][k]

C11_Witness ==
  \E p \in Procs :
    /\ pc[p] = "sections"
    /\ Len(documentSections[p]) >= 2
    /\ documentSections[p][1] # documentSections[p][2]
    /\ \E k \in 1..Len(sections[p]) : k \notin KeptPositions(p)

(***************************************************************************)
(* C12: the pipeline is total over strings: whatever the text (empty,      *)
(* without any pattern, with a line that matches a start and an end        *)
(* pattern), an invocation leaves the scan over the lines and returns its  *)
(* split documents, fields extracted; no step is undefined.                *)
(***************************************************************************)
C12_Total ==
  (\E p \in Procs : pc[p] \in {"call", "scan"}) ~>
    (\A p \in Procs :
       pc[p] # "idle" =>
         /\ pc[p] = "done"
         /\ i[p] = Len(lines[p])
         /\ result[p] # <<>>
         /\ result[p][1].splitCount = Len(result[p][1].splitDocuments)
         /\ result[p][1].splitCount >= 1
         /\ \A k \in 1..Len(result[p][1].splitDocuments) :
              "extractedFields" \in DOMAIN result[p][1].splitDocuments[k])

\* a returned invocation one of whose lines matches a start pattern and an
\* end pattern of the type it opens
C12_Witness ==
  \E p \in Procs :
    /\ Done(p)
    /\ \E k \in 1..Len(lines[p]) :
         /\ FirstStartType(lines[p][k]) # 0
         /\ isEndPattern(DocTypes[FirstStartType(lines[p][k])], lines[p][k])

(***************************************************************************)
(* C13: for the text of scenario A (the line COMMERCIAL INVOICE, then      *)
(* INVOICE NUMBER: INV-123, then TOTAL AMOUNT: USD 500.00) the pipeline    *)
(* returns exactly one segment, typed "Commercial Invoice", one of whose   *)
(* extracted fields is named "Total Amount" and has the value USD 500.00.  *)
(***************************************************************************)
\* segment seg has a field of that name and value
HasField(seg, fieldName, fieldValue) ==
  \E k \in 1..Len(seg.extractedFields) :
    /\ seg.extractedFields[k].fieldName = fieldName
    /\ seg.extractedFields[k].fieldValue = fieldValue

C13_ScenarioATotalAmount ==
  \A p \in Procs :
    (Done(p) /\ extractedText[p] = ScenarioA) =>
      /\ Len(Returned(p)) = 1
      /\ Returned(p)[1].documentType = "Commercial Invoice"
      /\ HasField(Returned(p)[1], "Total Amount", CharsOf(<< "USD", "500.00" >>))

(***************************************************************************)
(* C14: for a text that holds no keyword of any signature and matches no   *)
(* start pattern, the pipeline returns exactly one segment, typed          *)
(* "Unknown Document", with confidence 0.7 and no extracted field.         *)
(***************************************************************************)
\* the normalized text of p holds no keyword and matches no start pattern
NothingRecognized(p) ==
  /\ FirstStartType(normalizedText[p]) = 0
  /\ \A k \in 1..Len(DocTypes) :
       \A j \in 1..Len(registry[DocTypes[k]].keywords) :
         ~Includes(normalizedText[p], registry[DocTypes[k]].keywords[j])

\* the position of the first colon of a line, 0 if it has none
FirstColon(line) ==
  IF \A k \in 1..Len(line) : line[k] # ":" THEN 0
  ELSE CHOOSE k \in 1..Len(line) :
         line[k] = ":" /\ \A j \in 1..(k - 1) : line[j] # ":"

\* what stands before the first colon of a line
PairLabel(line) == SubSeq(line, 1, FirstColon(line) - 1)

\* what stands after the first colon of a line and the white space that
\* follows it; of white space alone, the last character
PairValue(line) ==
  LET rest == SubSeq(line, FirstColon(line) + 1, Len(line))
      lead == Cardinality({k \in 1..Len(rest) :
                             \A j \in 1..k : rest[j] \in WhiteSpace})
  IN  IF lead = Len(rest) /\ lead > 0 THEN << rest[lead] >>
      ELSE SubSeq(rest, lead + 1, Len(rest))

\* the line has the shape  label: value  with a label of fewer than 50
\* and a value of fewer than 200 characters
IsPair(line) ==
  /\ FirstColon(line) >= 2
  /\ Len(PairLabel(line)) < 50
  /\ PairValue(line) # <<>>
  /\ Len(PairValue(line)) < 200

C14_NothingRecognizedNoField ==
  \A p \in Procs :
    (Done(p) /\ NothingRecognized(p)) =>
      /\ Len(Returned(p)) = 1
      /\ Returned(p)[1].documentType = UnknownDocument
      /\ Returned(p)[1].confidence = D(140, 0)
      /\ Returned(p)[1].extractedFields = <<>>

\* the same, the field list being empty exactly when the text is no pair
C14_NothingRecognizedNoFieldUnlessPair ==
  \A p \in Procs :
    (Done(p) /\ NothingRecognized(p)) =>
      /\ Len(Returned(p)) = 1
      /\ Returned(p)[1].documentType = UnknownDocument
      /\ Returned(p)[1].confidence = D(140, 0)
      /\ Returned(p)[1].extractedFields = <<>>
            <=> ~IsPair(CharsOf(normalizedText[p]))
      /\ IsPair(CharsOf(normalizedText[p])) =>
            /\ Len(Returned(p)[1].extractedFields) = 1
            /\ Returned(p)[1].extractedFields[1].confidence = D(120, 0)

C14_Witness ==
  \E p \in Procs :
    /\ Done(p)
    /\ NothingRecognized(p)
    /\ normalizedText[p] = << "hello", "world" >>
    /\ Returned(p)[1].extractedFields = <<>>

(***************************************************************************)
(* C15: for a Letter-of-Credit segment that holds the line                 *)
(* BENEFICIARY: ABC Trading Company Limited  followed by further lines     *)
(* (scenario E), the extracted fields hold a field named "Beneficiary"     *)
(* whose value is exactly  ABC Trading Company Limited  (the capture ends  *)
(* with that line), with confidence 0.8.                                   *)
(***************************************************************************)
C15_ScenarioEBeneficiary ==
  \A p \in Procs :
    (Done(p) /\ extractedText[p] = ScenarioE) =>
      \E k \in 1..Len(Returned(p)) :
        /\ Returned(p)[k].documentType = "Letter of Credit"
        /\ \E j \in 1..Len(Returned(p)[k].extractedFields) :
             /\ Returned(p)[k].extractedFields[j].fieldName = "Beneficiary"
             /\ Returned(p)[k].extractedFields[j].fieldValue
                  = CharsOf(<< "ABC", "Trading", "Company", "Limited" >>)
             /\ Returned(p)[k].extractedFields[j].confidence = D(160, 0)

(***************************************************************************)
(* C16: of two raw segments of the same type with the same keyword density *)
(* and the same structure score, one with a content shorter than 100       *)
(* characters and one with a content of at least 100 characters, the       *)
(* refined confidence of the short one is exactly half that of the long    *)
(* one: the halving comes after the cap at 0.95.  It comes before the drop *)
(* test: the short one is kept exactly when that half is above 0.3.        *)
(***************************************************************************)
\* segments a and b have the same type and the same two scores, a is
\* short and b is not
ShortAndLong(a, b) ==
  /\ a.type = b.type
  /\ countKeywordMatches(a.content, a.type) = countKeywordMatches(b.content, b.type)
  /\ analyzeDocumentStructure(a.content, a.type)
       = analyzeDocumentStructure(b.content, b.type)
  /\ StrLen(a.content) < 100
  /\ StrLen(b.content) >= 100

C16_ShortIsHalfOfLong ==
  \A p \in Procs :
    pc[p] = "sections" =>
      \A j, k \in 1..Len(sections[p]) :
        ShortAndLong(sections[p][j], sections[p][k]) =>
          LET short == sections[p][j].confidence
              long  == sections[p][k].confidence
          IN  /\ 2 * short.q = long.q
              /\ short.e = long.e
              /\ Le(long, D(190, 0))
              /\ (\E n \in 1..Len(documentSections[p]) :
                     documentSections[p][n] = sections[p][j])
                   <=> (long.q > 120 \/ (long.q = 120 /\ long.e > 0))

\* a short and a long segment at the cap: 0.475 and 0.95, both kept
C16_Witness ==
  \E p \in Procs :
    /\ pc[p] = "sections"
    /\ Len(documentSections[p]) = 2
    /\ ShortAndLong(sections[p][1], sections[p][2])
    /\ sections[p][2].confidence = D(190, 0)
    /\ sections[p][1].confidence = D(95, 0)

(***************************************************************************)
(* C17: for a segment of a type with a dedicated rule set, each rule gives *)
(* at most one field, taken from its first match in the content, and none  *)
(* when it does not match; the fields stand in the order in which the      *)
(* rules are declared, so there are no more fields than the type has       *)
(* rules, and no field with an empty value stands for an unmatched rule.   *)
(***************************************************************************)
\* the rules of a type, in the order in which its extractor declares them
Rules(documentType) ==
  CASE documentType = "Letter of Credit" ->
         << [fieldName |-> "LC Number", pattern |-> LCNumberPattern,
             trimmed |-> FALSE, confidence |-> D(180, 0)],
            [fieldName |-> "Amount", pattern |-> AmountPattern,
             trimmed |-> FALSE, confidence |-> D(170, 0)],
            [fieldName |-> "Beneficiary", pattern |-> BeneficiaryPattern,
             trimmed |-> TRUE, confidence |-> D(160, 0)],
            [fieldName |-> "Applicant", pattern |-> ApplicantPattern,
             trimmed |-> TRUE, confidence |-> D(160, 0)] >>
    [] documentType = "Commercial Invoice" ->
         << [fieldName |-> "Invoice Number", pattern |-> InvoiceNumberPattern,
             trimmed |-> FALSE, confidence |-> D(180, 0)],
            [fieldName |-> "Total Amount", pattern |-> TotalAmountPattern,
             trimmed |-> FALSE, confidence |-> D(170, 0)] >>
    [] documentType = "Bill of Lading" ->
         << [fieldName |-> "B/L Number", pattern |-> BLNumberPattern,
             trimmed |-> FALSE, confidence |-> D(180, 0)],
            [fieldName |-> "Vessel", pattern |-> VesselPattern,
             trimmed |-> TRUE, confidence |-> D(160, 0)] >>
    [] documentType = "Packing List" ->
         << [fieldName |-> "Total Packages", pattern |-> PackagesPattern,
             trimmed |-> FALSE, confidence |-> D(170, 0)] >>
    [] documentType = "Certificate of Origin" ->
         << [fieldName |-> "Country of Origin", pattern |-> CountryPattern,
             trimmed |-> TRUE, confidence |-> D(180, 0)] >>
    [] documentType = "Insurance Certificate" ->
         << [fieldName |-> "Policy Number", pattern |-> PolicyNumberPattern,
             trimmed |-> FALSE, confidence |-> D(180, 0)] >>
    [] OTHER -> <<>>

\* the positions of s at which re matches
MatchPositions(re, s) == {p \in 0..Len(s) : MatchAt(re, s, p) # <<>>}

\* the first capture of the match of re in s at the least position
FirstCapture(re, s) ==
  LET p == CHOOSE p \in MatchPositions(re, s) :
             \A q \in MatchPositions(re, s) : p <= q
  IN  MatchAt(re, s, p)[1].groups[1]

\* the position of the rule named fieldName among rules, 0 if none
RuleIndex(rules, fieldName) ==
  IF \E n \in 1..Len(rules) : rules[n].fieldName = fieldName
  THEN CHOOSE n \in 1..Len(rules) : rules[n].fieldName = fieldName
  ELSE 0

C17_OneFieldPerMatchingRule ==
  (xpc = "done" /\ Rules(sectionType) # <<>>) =>
    LET rules == Rules(sectionType)
    IN  /\ Len(fields) <= Len(rules)
        /\ \A k \in 1..Len(fields) :
             /\ RuleIndex(rules, fields[k].fieldName) # 0
             /\ fields[k].fieldValue # <<>>
        /\ \A j, k \in 1..Len(fields) :
             j < k => RuleIndex(rules, fields[j].fieldName)
                        < RuleIndex(rules, fields[k].fieldName)
        /\ \A n \in 1..Len(rules) :
             LET mine == {k \in 1..Len(fields) :
                            fields[k].fieldName = rules[n].fieldName}
             IN  IF MatchPositions(rules[n].pattern, sectionContent) = {}
                 THEN mine = {}
                 ELSE /\ Cardinality(mine) = 1
                      /\ \A k \in mine :
                           /\ fields[k].confidence = rules[n].confidence
                           /\ fields[k].fieldValue =
                                LET capture == FirstCapture(rules[n].pattern,
                                                            sectionContent)
                                IN  IF rules[n].trimmed THEN Trim(capture)
                                    ELSE capture

\* a Letter-of-Credit section in which the LC Number rule matches at two
\* places with two captures, and some other rule does not match
C17_Witness ==
  /\ xpc = "done"
  /\ sectionType = "Letter of Credit"
  /\ Len(fields) \in 1..3
  /\ fields[1].fieldName = "LC Number"
  /\ \E p \in MatchPositions(LCNumberPattern, sectionContent) :
       MatchAt(LCNumberPattern, sectionContent, p)[1].groups[1]
         # fields[1].fieldValue

(***************************************************************************)
(* C18: for a segment of a type without a dedicated rule set, the generic  *)
(* extractor returns at most 10 fields: those of the first 10 lines, in    *)
(* the order of the lines, that have the shape  label: value  with a label *)
(* shorter than 50 and a value shorter than 200 characters; each has       *)
(* confidence 0.6, and a line that fails the length limits does not count  *)
(* toward the 10.                                                          *)
(***************************************************************************)
\* the positions of the lines handed over that are pairs within the limits
PairPositions ==
  {k \in 1..Len(fieldLines) : IsPair(CharsOf(fieldLines[k]))}

\* the n-th of these positions
NthPair(n) ==
  CHOOSE k \in PairPositions : Cardinality({j \in PairPositions : j <= k}) = n

C18_FirstTenPairs ==
  xpc = "done" =>
    /\ Len(fields) <= 10
    /\ Len(fields) = IF Cardinality(PairPositions) < 10
                     THEN Cardinality(PairPositions) ELSE 10
    /\ \A n \in 1..Len(fields) :
         LET line == CharsOf(fieldLines[NthPair(n)])
         IN  fields[n] = [fieldName  |-> Trim(PairLabel(line)),
                          fieldValue |-> Trim(PairValue(line)),
                          confidence |-> D(120, 0)]

\* eleven lines, one of them beyond a length limit and ten of them pairs:
\* the eleventh line gives the tenth field
C18_Witness ==
  /\ xpc = "done"
  /\ Len(fieldLines) = 11
  /\ Len(fields) = 10
  /\ 11 \in PairPositions
  /\ \E k \in 1..10 :
       /\ k \notin PairPositions
       /\ FirstColon(CharsOf(fieldLines[k])) # 0

(***************************************************************************)
(* C19: the boundary detector is a machine of two states, no open segment  *)
(* and one open segment of a type, and starts with no open segment: after  *)
(* any prefix of the lines at most one segment is open; a segment is       *)
(* emitted only by closing the open one; a line that matches no start      *)
(* pattern and no end pattern of the open type leaves the state as it was  *)
(* (nothing emitted, the open segment keeps its type and its start line).  *)
(***************************************************************************)
\* the step is one iteration of the loop over the lines, by invocation p
IsScanStep(p) ==
  /\ pc[p] = "scan"
  /\ pc'[p] = "scan"
  /\ i'[p] = i[p] + 1

\* the line the iteration of p is about
ScannedLine(p) == lines[p][i[p] + 1]

\* the line of p matches no start pattern and no end pattern of the type
\* of the open segment
IsPlainLine(p) ==
  /\ FirstStartType(ScannedLine(p)) = 0
  /\ currentSection[p] # <<>> =>
       ~isEndPattern(currentSection[p][1].type, ScannedLine(p))

C19_TwoStateMachine ==
  [][\A p \in Procs :
       IsScanStep(p) =>
         /\ i[p] = 0 => (currentSection[p] = <<>> /\ sections[p] = <<>>)
         /\ Len(currentSection[p]) <= 1
         /\ Len(currentSection'[p]) <= 1
         /\ Len(sections'[p]) >= Len(sections[p])
         /\ SubSeq(sections'[p], 1, Len(sections[p])) = sections[p]
         /\ \A n \in (Len(sections[p]) + 1)..Len(sections'[p]) :
              LET emitted == sections'[p][n]
              IN  \/ /\ currentSection[p] # <<>>
                     /\ n = Len(sections[p]) + 1
                     /\ emitted.type = currentSection[p][1].type
                     /\ emitted.startIndex = currentSection[p][1].startIndex
                  \/ /\ FirstStartType(ScannedLine(p)) # 0
                     /\ n = Len(sections'[p])
                     /\ emitted.type = DocTypes[FirstStartType(ScannedLine(p))]
                     /\ emitted.startIndex = i[p]
                     /\ currentSection'[p] = <<>>
         /\ IsPlainLine(p) =>
              /\ sections'[p] = sections[p]
              /\ currentSection'[p] = currentSection[p]
    ]_vars

\* a segment has been emitted, another one is open, and the line scanned
\* last matched no start pattern and no end pattern of its type
C19_Witness ==
  \E p \in Procs :
    /\ pc[p] = "scan"
    /\ i[p] >= 2
    /\ sections[p] # <<>>
    /\ currentSection[p] # <<>>
    /\ currentSection[p][1].startIndex < i[p] - 1
    /\ FirstStartType(lines[p][i[p]]) = 0
    /\ ~isEndPattern(currentSection[p][1].type, lines[p][i[p]])

(***************************************************************************)
(* C20: when line i matches a start pattern of type B while a segment of   *)
(* another type A is open, the A segment is emitted first, with end index  *)
(* i - 1 and as content the lines from its start to i - 1 joined (line i   *)
(* is not part of it), and then a B segment is opened with start index i;  *)
(* the A segment stands before the B segment in the output.                *)
(***************************************************************************)
C20_StartClosesOtherType ==
  [][\A p \in Procs :
       (/\ IsScanStep(p)
        /\ currentSection[p] # <<>>
        /\ FirstStartType(ScannedLine(p)) # 0
        /\ DocTypes[FirstStartType(ScannedLine(p))] # currentSection[p][1].type)
       =>
         LET A == currentSection[p][1]
             B == DocTypes[FirstStartType(ScannedLine(p))]
             n == Len(sections[p])
             opened(sec) == /\ sec.type = B
                            /\ sec.startIndex = i[p]
         IN  /\ Len(sections'[p]) > n
             /\ SubSeq(sections'[p], 1, n) = sections[p]
             /\ sections'[p][n + 1] =
                  [type       |-> A.type,
                   startIndex |-> A.startIndex,
                   endIndex   |-> i[p] - 1,
                   content    |-> JoinLines(SubSeq(lines[p], A.startIndex + 1, i[p])),
                   confidence |-> A.confidence]
             /\ IF isEndPattern(B, ScannedLine(p))
                THEN /\ Len(sections'[p]) = n + 2
                     /\ opened(sections'[p][n + 2])
                     /\ currentSection'[p] = <<>>
                ELSE /\ Len(sections'[p]) = n + 1
                     /\ Len(currentSection'[p]) = 1
                     /\ opened(currentSection'[p][1])
    ]_vars

\* a segment of two lines has been closed by the start of a segment of
\* another type, which is open
C20_Witness ==
  \E p \in Procs :
    /\ pc[p] = "scan"
    /\ i[p] >= 3
    /\ sections[p] # <<>>
    /\ currentSection[p] # <<>>
    /\ currentSection[p][1].startIndex = i[p] - 1
    /\ LET A == sections[p][Len(sections[p])]
       IN  /\ A.type # currentSection[p][1].type
           /\ A.endIndex = i[p] - 2
           /\ A.startIndex < A.endIndex

(***************************************************************************)
(* C21: when a segment is open at the end-pattern check of line i and the  *)
(* line matches an end pattern of the type of that segment, the segment is *)
(* emitted with end index i and a content that includes line i, and no     *)
(* segment is open afterwards; an end pattern of another type never closes *)
(* the open segment.                                                       *)
(***************************************************************************)
\* the segment that is open when the end patterns are tested for the line
\* of p: the one this line opened, else the one that was open before
OpenAtEndCheck(p) ==
  IF FirstStartType(ScannedLine(p)) # 0
  THEN << [type       |-> DocTypes[FirstStartType(ScannedLine(p))],
           startIndex |-> i[p]] >>
  ELSE IF currentSection[p] # <<>>
  THEN << [type       |-> currentSection[p][1].type,
           startIndex |-> currentSection[p][1].startIndex] >>
  ELSE <<>>

IsFinishStep(p) ==
  /\ pc[p] = "scan"
  /\ pc'[p] = "sections"

\* the segment without its confidence
Extent(section) ==
  [type       |-> section.type,
   startIndex |-> section.startIndex,
   endIndex   |-> section.endIndex,
   content    |-> section.content]

C22_OpenSegmentEmittedAtEnd ==
  [][\A p \in Procs :
       IsFinishStep(p) =>
         LET n == Len(sections[p])
         IN  /\ i[p] = Len(lines[p])
             /\ \A k \in 1..n :
                  /\ k <= Len(sections'[p])
                  /\ Extent(sections'[p][k]) = Extent(sections[p][k])
             /\ IF currentSection[p] = <<>>
                THEN Len(sections'[p]) = n
                ELSE /\ Len(sections'[p]) = n + 1
                     /\ Extent(sections'[p][n + 1]) =
                          [type       |-> currentSection[p][1].type,
                           startIndex |-> currentSection[p][1].startIndex,
                           endIndex   |-> Len(lines[p]) - 1,
                           content    |->
                             JoinLines(SubSeq(lines[p],
                                              currentSection[p][1].startIndex + 1,
                                              Len(lines[p])))]
                     /\ Cardinality({k \in 1..Len(sections'[p]) :
                                       sections'[p][k].startIndex
                                         = currentSection[p][1].startIndex}) = 1
    ]_vars

\* the loop has ended with an open segment of two lines or more, after
\* another segment had been emitted
C22_Witness ==
  \E p \in Procs :
    /\ pc[p] = "sections"
    /\ currentSection[p] # <<>>
    /\ Len(sections[p]) >= 2
    /\ LET last == sections[p][Len(sections[p])]
       IN  /\ last.startIndex = currentSection[p][1].startIndex
           /\ last.startIndex < last.endIndex
           /\ last.endIndex = Len(lines[p]) - 1

(***************************************************************************)
(* C23: when a line matches start patterns of several signatures, the      *)
(* segment opened at that line has the type of the matching signature that *)
(* comes first in the declared order of the registry (Letter of Credit,    *)
(* Commercial Invoice, Bill of Lading, Packing List, Certificate of        *)
(* Origin, Insurance Certificate); at most one segment is opened per line. *)
(***************************************************************************)
\* the types with a start pattern that matches line
StartTypes(line) ==
  {t \in DOMAIN registry : isStartPattern(t, line)}

\* the segments of p, emitted or open, after the step
SegmentsAfter(p) == sections'[p] \o currentSection'[p]

C23_FirstDeclaredTypeOpens ==
  [][\A p \in Procs :
       IsScanStep(p) =>
         LET declared == << "Letter of Credit", "Commercial Invoice",
                            "Bill of Lading", "Packing List",
                            "Certificate of Origin", "Insurance Certificate" >>
             matching == StartTypes(ScannedLine(p))
             opened   == {n \in 1..Len(SegmentsAfter(p)) :
                            SegmentsAfter(p)[n].startIndex = i[p]}
         IN  /\ Cardinality(opened) <= 1
             /\ (opened # {}) <=> (matching # {})
             /\ \A n \in opened :
                  \E k \in 1..Len(declared) :
                    /\ SegmentsAfter(p)[n].type = declared[k]
                    /\ declared[k] \in matching
                    /\ \A j \in 1..(k - 1) : declared[j] \notin matching
    ]_vars

\* the line scanned last matches start patterns of two signatures and the
\* segment it opened is open
C23_Witness ==
  \E p \in Procs :
    /\ pc[p] = "scan"
    /\ i[p] >= 1
    /\ Cardinality(StartTypes(lines[p][i[p]])) >= 2
    /\ currentSection[p] # <<>>
    /\ currentSection[p][1].startIndex = i[p] - 1
    /\ currentSection[p][1].type = "Bill of Lading"

(***************************************************************************)
(* C24: for every raw segment the refiner sets the confidence to           *)
(* min(0.95, 0.4 x keyword density + 0.6 x structure score), the keyword   *)
(* density being the keywords of the type found in the content over the    *)
(* number of keywords of the type, and the structure score 0.2 for each    *)
(* Letter-of-Credit item, 0.25 for each Commercial-Invoice or              *)
(* Bill-of-Lading item, 0.5 for every other type; the confidence computed  *)
(* at the start match has no influence on the refined value.               *)
(***************************************************************************)
\* the step by which p refines its raw segments
IsRefineStep(p) ==
  /\ pc[p] = "refine"
  /\ pc'[p] = "sections"

\* how many keywords of the type of the segment its content holds
KeywordsFound(section) ==
  Cardinality({k \in 1..Len(registry[section.type].keywords) :
                 Includes(section.content, registry[section.type].keywords[k])})

\* how many items of the checklist some line of the content holds
ItemsFound(section, items) ==
  Cardinality({item \in items :
                 \E k \in 1..Len(SplitLines(section.content)) :
                   Includes(SplitLines(section.content)[k], item)})

\* 1000 times 0.4 x keyword density + 0.6 x structure score, in exact
\* arithmetic
BlendPerMille(section) ==
  (400 * KeywordsFound(section)) \div Len(registry[section.type].keywords)
  + CASE section.type = "Letter of Credit" ->
           120 * ItemsFound(section, { <<"lc", "number">>, <<"beneficiary">>,
                                       <<"applicant">>, <<"amount">>,
                                       <<"expiry">> })
      [] section.type = "Commercial Invoice" ->
           150 * ItemsFound(section, { <<"invoice", "number">>, <<"date">>,
                                       <<"total">>, <<"description">> })
      [] section.type = "Bill of Lading" ->
           150 * ItemsFound(section, { <<"vessel">>, <<"port">>,
                                       <<"consignee">>, <<"shipper">> })
      [] OTHER -> 300

\* 1000 times min(0.95, blend)
CappedPerMille(section) ==
  IF BlendPerMille(section) > 950 THEN 950 ELSE BlendPerMille(section)

\* the double x is the number n / 1000, up to the rounding of two
\* multiplications and one addition
IsPerMille(x, n) ==
  /\ 5 * x.q = n
  /\ x.e \in (0 - 2)..2

\* the double x is the number n / 2000, up to that rounding
IsHalfPerMille(x, n) ==
  /\ 10 * x.q = n
  /\ x.e \in (0 - 2)..2

C24_RefinedIsCappedBlend ==
  [][\A p \in Procs :
       IsRefineStep(p) =>
         /\ Len(sections'[p]) = Len(sections[p])
         /\ \A k \in 1..Len(sections[p]) :
              IsPerMille(sections'[p][k].confidence,
                         CappedPerMille(sections[p][k]))
    ]_vars

C24_RefinedIsCappedBlendHalvedWhenShort ==
  [][\A p \in Procs :
       IsRefineStep(p) =>
         /\ Len(sections'[p]) = Len(sections[p])
         /\ \A k \in 1..Len(sections[p]) :
              IF StrLen(sections[p][k].content) >= 100
              THEN IsPerMille(sections'[p][k].confidence,
                              CappedPerMille(sections[p][k]))
              ELSE IsHalfPerMille(sections'[p][k].confidence,
                                  CappedPerMille(sections[p][k]))
    ]_vars

\* two refined segments: a long Bill of Lading at 0.92 and a short Packing
\* List at half of 0.38
C24_Witness ==
  \E p \in Procs :
    /\ pc[p] = "sections"
    /\ Len(sections[p]) = 2
    /\ sections[p][1].type = "Bill of Lading"
    /\ StrLen(sections[p][1].content) >= 100
    /\ sections[p][1].confidence.q = 184
    /\ sections[p][2].type = "Packing List"
    /\ StrLen(sections[p][2].content) < 100
    /\ sections[p][2].confidence.q = 38

(***************************************************************************)
(* C25: the classification of the whole text, used for the fallback        *)
(* segment, gives each signature the score 0.6 x (keywords found / number  *)
(* of keywords) + 0.4 x (start patterns matching somewhere in the text /   *)
(* number of start patterns) and returns the signature with the highest    *)
(* score, the earliest in the order of the registry on a tie; it returns   *)
(* "Unknown Document" exactly when the best score is at most 0.3.          *)
(***************************************************************************)
\* the types in the order in which the registry declares them
DeclaredTypes ==
  << "Letter of Credit", "Commercial Invoice", "Bill of Lading",
     "Packing List", "Certificate of Origin", "Insurance Certificate" >>

\* 1000 times the score of type t for text, in exact arithmetic
ScorePerMille(text, t) ==
  LET keywords == registry[t].keywords
      patterns == registry[t].startPatterns
      found    == Cardinality({k \in 1..Len(keywords) : Includes(text, keywords[k])})
      matched  == Cardinality({k \in 1..Len(patterns) : RegexTest(patterns[k], text)})
  IN  (600 * found) \div Len(keywords) + (400 * matched) \div Len(patterns)

\* the highest of the scores of text
BestPerMille(text) ==
  CHOOSE s \in {ScorePerMille(text, DeclaredTypes[k]) : k \in 1..Len(DeclaredTypes)} :
    \A k \in 1..Len(DeclaredTypes) : ScorePerMille(text, DeclaredTypes[k]) <= s

\* the types of text with the highest score
BestTypes(text) ==
  {k \in 1..Len(DeclaredTypes) :
     ScorePerMille(text, DeclaredTypes[k]) = BestPerMille(text)}

C25_FallbackTypeIsBestScore ==
  \A p \in Procs :
    (Done(p) /\ usedFallback[p]) =>
      LET text == normalizedText[p]
          type == Returned(p)[1].documentType
      IN  /\ Len(Returned(p)) = 1
          /\ (type = "Unknown Document") <=> (BestPerMille(text) <= 300)
          /\ type # "Unknown Document" =>
               \E k \in BestTypes(text) :
                 /\ type = DeclaredTypes[k]
                 /\ \A j \in BestTypes(text) : k <= j

\* the fallback segment of a text for which two signatures have the
\* highest score, above 0.3
C25_Witness ==
  \E p \in Procs :
    /\ Done(p)
    /\ usedFallback[p]
    /\ BestPerMille(normalizedText[p]) > 300
    /\ Cardinality(BestTypes(normalizedText[p])) >= 2
    /\ Returned(p)[1].documentType = "Letter of Credit"

(***************************************************************************)
(* C26: every segment the pipeline returns, the fallback segment included, *)
(* for every input, the empty one included, has                            *)
(* 0 <= lineStart <= lineEnd <= number of normalized lines - 1 and         *)
(* 1 <= pageRange.start <= pageRange.end, with                             *)
(* pageRange.start = floor(lineStart / 50) + 1 and                         *)
(* pageRange.end = floor(lineEnd / 50) + 1.                                *)
(***************************************************************************)
C26_LineAndPageRanges ==
  \A p \in Procs :
    Done(p) =>
      \A k \in 1..Len(Returned(p)) :
        LET seg == Returned(p)[k]
        IN  /\ 0 <= seg.metadata.lineStart
            /\ seg.metadata.lineStart <= seg.metadata.lineEnd
            /\ seg.metadata.lineEnd <= Len(lines[p]) - 1
            /\ 1 <= seg.pageRange.start
            /\ seg.pageRange.start <= seg.pageRange.end
            /\ seg.pageRange.start = (seg.metadata.lineStart \div 50) + 1
            /\ seg.pageRange.end = (seg.metadata.lineEnd \div 50) + 1

(***************************************************************************)
(* C27: every input line belongs to the content of at most one raw         *)
(* segment; a line processed while no segment is open and matching no      *)
(* start pattern (before the first start match, or between a close by an   *)
(* end pattern and the next start match) belongs to no segment; the        *)
(* content of each detected segment is exactly its lines lineStart to      *)
(* lineEnd, joined in order.                                               *)
(***************************************************************************)
\* the raw segments of p whose line range holds line k (counted from 0)
Holding(p, k) ==
  {n \in 1..Len(sections[p]) :
     sections[p][n].startIndex <= k /\ k <= sections[p][n].endIndex}

\* no segment is open when line k of ls (counted from 0) is reached: no
\* line before it matched a start pattern, or a line from the last such
\* line on matched an end pattern of the type that line opened
NoneOpenAt(ls, k) ==
  LET starts == {j \in 0..(k - 1) : FirstStartType(ls[j + 1]) # 0}
  IN  \/ starts = {}
      \/ LET j == CHOOSE j \in starts : \A m \in starts : m <= j
             T == DocTypes[FirstStartType(ls[j + 1])]
         IN  \E m \in j..(k - 1) : isEndPattern(T, ls[m + 1])

C27_LinesInAtMostOneSegment ==
  \A p \in Procs :
    pc[p] = "sections" =>
      /\ \A n \in 1..Len(sections[p]) :
           LET s == sections[p][n]
           IN  /\ 0 <= s.startIndex
               /\ s.startIndex <= s.endIndex
               /\ s.endIndex <= Len(lines[p]) - 1
               /\ s.content =
                    JoinLines(SubSeq(lines[p], s.startIndex + 1, s.endIndex + 1))
      /\ \A k \in 0..(Len(lines[p]) - 1) :
           /\ Cardinality(Holding(p, k)) <= 1
           /\ (FirstStartType(lines[p][k + 1]) = 0 /\ NoneOpenAt(lines[p], k))
                => Holding(p, k) = {}

\* three lines: a segment of two lines closed by an end pattern, and after
\* it a line that belongs to no segment
C27_Witness ==
  \E p \in Procs :
    /\ pc[p] = "sections"
    /\ Len(lines[p]) = 3
    /\ Len(sections[p]) = 1
    /\ sections[p][1].startIndex = 0
    /\ sections[p][1].endIndex = 1
    /\ FirstStartType(lines[p][2]) = 0
    /\ FirstStartType(lines[p][3]) = 0
    /\ NoneOpenAt(lines[p], 2)
    /\ Holding(p, 2) = {}

(***************************************************************************)
(* C28: when one line i matches a start pattern of type S, S being the     *)
(* first matching signature in the order of the registry, and an end       *)
(* pattern of S (a line SHIPPED ON BOARD for Bill of Lading), the detector *)
(* opens a segment of S at i and closes it at i in the same step: a raw    *)
(* segment with lineStart = lineEnd = i is emitted and no segment is open  *)
(* afterwards, so the lines that follow are not attached to it.            *)
(***************************************************************************)
\* line k of ls (counted from 0) matches a start pattern of the first
\* matching signature and an end pattern of the same signature
OpensAndCloses(ls, k) ==
  /\ FirstStartType(ls[k + 1]) # 0
  /\ isEndPattern(DocTypes[FirstStartType(ls[k + 1])], ls[k + 1])

C28_StartAndEndOnOneLine ==
  \A p \in Procs :
    pc[p] \in {"scan", "sections"} =>
      \A k \in 0..(i[p] - 1) :
        OpensAndCloses(lines[p], k) =>
          /\ Cardinality({n \in 1..Len(sections[p]) :
                            sections[p][n].startIndex = k}) = 1
          /\ \A n \in 1..Len(sections[p]) :
               sections[p][n].startIndex = k =>
                 /\ sections[p][n].type = DocTypes[FirstStartType(lines[p][k + 1])]
                 /\ sections[p][n].endIndex = k
                 /\ sections[p][n].content = lines[p][k + 1]
          /\ (pc[p] = "scan" /\ i[p] = k + 1) => currentSection[p] = <<>>
          /\ (k + 1 < i[p] /\ FirstStartType(lines[p][k + 2]) = 0) =>
               Holding(p, k + 1) = {}

\* three lines: the second one opens and closes a segment, the third one
\* matches no start pattern and belongs to no segment
C28_Witness ==
  \E p \in Procs :
    /\ pc[p] = "sections"
    /\ Len(lines[p]) = 3
    /\ OpensAndCloses(lines[p], 1)
    /\ FirstStartType(lines[p][3]) = 0
    /\ Holding(p, 2) = {}
    /\ \E n \in 1..Len(sections[p]) :
         /\ sections[p][n].type = "Bill of Lading"
         /\ sections[p][n].startIndex = 1
         /\ sections[p][n].endIndex = 1

(***************************************************************************)
(* C29, C30: the progress a run records                                    *)
(***************************************************************************)
\* the terminal updates of a run
IsTerminal(u) ==
  \/ u.stage = "completed" /\ u.progress = 100
  \/ u.stage = "error" /\ u.progress = 0

\* the place of the first terminal update among updates, or one past the end
FirstTerminal(updates) ==
  IF \E k \in 1..Len(updates) : IsTerminal(updates[k])
  THEN CHOOSE k \in 1..Len(updates) :
         /\ IsTerminal(updates[k])
         /\ \A j \in 1..(k - 1) : ~IsTerminal(updates[j])
  ELSE Len(updates) + 1

\* C29: within one run, from the starting update of its route through
\* processDocument, the percentages handed to updateProgress never decrease
\* before the terminal update of the run ('completed' 100 or 'error' 0),
\* whether the OCR succeeds or fails and mock text takes its place.
C29_ProgressNeverDecreases ==
  \A r \in Runs :
    \A k \in 1..Len(recorded[r]) :
      k + 1 < FirstTerminal(recorded[r])
        => recorded[r][k].progress <= recorded[r][k + 1].progress

\* run r has recorded its starting progress and no terminal update yet
InProgress(r) ==
  /\ recorded[r] # <<>>
  /\ FirstTerminal(recorded[r]) = Len(recorded[r]) + 1

\* C30: while a run is in progress (its route has recorded the starting
\* progress, the run has recorded neither 'completed' nor 'error'), the Map
\* has the entry of the document and the entry was written by that run; the
\* timer of an earlier, finished run never deletes it.
C30_EntryHeldByRunInProgress ==
  \A r \in Runs :
    InProgress(r)
      => /\ processingProgress # <<>>
         /\ processingProgress[1].by = r

====
